---------------------------- MODULE Spec2Model ----------------------------
(***************************************************************************)
(* Daily Routine task manager: the Task Repository (TaskManager), the      *)
(* Notification Center (NotificationManager) and the persistent store      *)
(* (localStorage) they write through to, as state machines.                *)
(*                                                                         *)
(* Date strings, which the program compares lexically, are sequences of    *)
(* one-character strings; all other strings are TLA+ strings.  The clock   *)
(* counts milliseconds from BaseInstant, so Date.now() is BaseInstant +    *)
(* clock; ids are kept as that offset.                                     *)
(***************************************************************************)
EXTENDS Integers, Sequences, FiniteSets, TLC

VARIABLES
  clock,          \* ms elapsed since BaseInstant: what Date.now() reads
  tasks,          \* TaskManager.tasks
  notifications,  \* NotificationManager.notifications
  localStorage,   \* the stored keys, each with its JSON text
  badges,         \* the page's .notification_badge elements
  toasts,         \* the toast elements in document.body, with their timer phase
  settings,       \* SettingsManager.settings
  page,           \* what applySetting writes: data-theme, root font size, dark-mode class
  user,           \* UserManager.user
  currentFilter,  \* the global currentFilter
  taskList,       \* the .task_list region: whether the page has it, and its content
  dashboard,      \* the dashboard elements the page has, each with its content
  document,       \* the other regions of the page: views, completed lists, profile
  op,             \* name of the last handler that ran
  ret,            \* what the last handler returned
  writes,         \* localStorage keys the last handler called setItem on
  adds,           \* number of addTask calls so far
  deletes         \* number of deleteTask calls so far that found their id

vars == <<clock, tasks, notifications, localStorage, badges, toasts, settings,
          page, user, currentFilter, taskList, dashboard, document, op, ret,
          writes, adds, deletes>>

-----------------------------------------------------------------------------
(* Bounds *)

MaxClock == 1     \* the clock stops after this many milliseconds
MaxAdds == 2      \* addTask calls in one behaviour
MaxTotal == 41    \* largest collection the percentage specification draws
MaxNew == 2       \* notifications recorded in one session
MaxToasts == 1    \* toast elements on screen at once

-----------------------------------------------------------------------------
(* JavaScript values *)

\* The value `undefined`, as a handler's result
Undefined == [type |-> "undefined"]

\* obj.key || dflt for a key holding a string: a missing key and '' are falsy
StrOr(obj, key, dflt) ==
  IF key \notin DOMAIN obj THEN dflt
  ELSE IF obj[key] = "" THEN dflt
  ELSE obj[key]

-----------------------------------------------------------------------------
(* Dates: new Date().toISOString() and .split('T')[0] *)

MsPerDay == 86400000

Digits == <<"0", "1", "2", "3", "4", "5", "6", "7", "8", "9">>

Pad2(n) == <<Digits[((n \div 10) % 10) + 1], Digits[(n % 10) + 1]>>

\* "YYYY-MM-DD"
DateStr(y, m, d) ==
  Pad2(y \div 100) \o Pad2(y) \o <<"-">> \o Pad2(m) \o <<"-">> \o Pad2(d)

\* the proleptic Gregorian date of day number `days` since 1970-01-01
CivilFromDays(days) ==
  LET z == days + 719468
      era == z \div 146097
      doe == z - era * 146097
      yoe == (doe - doe \div 1460 + doe \div 36524 - doe \div 146096) \div 365
      doy == doe - (365 * yoe + yoe \div 4 - yoe \div 100)
      mp == (5 * doy + 2) \div 153
      d == doy - (153 * mp + 2) \div 5 + 1
      m == IF mp < 10 THEN mp + 3 ELSE mp - 9
      y == yoe + era * 400 + (IF m <= 2 THEN 1 ELSE 0)
  IN  [year |-> y, month |-> m, day |-> d]

\* new Date(BaseInstant + t).toISOString(), "YYYY-MM-DDTHH:mm:ss.sssZ" in UTC,
\* kept as its two parts: the civil date before the 'T' and the time of day
\* after it, in ms
\* BaseInstant is 2023-12-31T23:59:59.999Z: the last ms, 86399999, of day
\* 19722 of the epoch
ISOString(t) ==
  LET abs == 86399999 + t
  IN  [date |-> CivilFromDays(19722 + (abs \div MsPerDay)),
       time |-> abs % MsPerDay]

\* new Date().toISOString().split('T')[0]: the text before the 'T'
Today(t) ==
  LET iso == ISOString(t)
  IN  DateStr(iso.date.year, iso.date.month, iso.date.day)

\* UTF-16 code unit of the characters the date strings are made of
CharCode(ch) ==
  IF ch = "-" THEN 45
  ELSE 48 + (CHOOSE d \in 0..9 : Digits[d + 1] = ch)

RECURSIVE StrGreater(_, _)
\* a > b on JavaScript strings: code unit by code unit, a proper prefix is less
StrGreater(a, b) ==
  IF a = <<>> THEN FALSE
  ELSE IF b = <<>> THEN TRUE
  ELSE IF CharCode(Head(a)) # CharCode(Head(b))
       THEN CharCode(Head(a)) > CharCode(Head(b))
  ELSE StrGreater(Tail(a), Tail(b))

\* array.filter(test) is SelectSeq(array, test).
\* array.find(test), given the indices of the elements passing the test:
\* the index of the first of them, 0 for `undefined`
Find(passing) ==
  IF passing = {} THEN 0
  ELSE CHOOSE i \in passing : \A j \in passing : i <= j

\* this.notifications.find(n => n.id === id)
FindNotification(ns, id) == Find({i \in 1..Len(ns) : ns[i].id = id})

\* Object.assign(target, source): source's keys overwrite or extend target's
ObjectAssign(target, source) ==
  [k \in DOMAIN target \cup DOMAIN source |->
     IF k \in DOMAIN source THEN source[k] ELSE target[k]]

-----------------------------------------------------------------------------
(* JSON text and the persistent store *)

\* JSON.stringify of an object whose keys were created in the order `keys`:
\* the members, in that order, as <<key, value>> pairs
StringifyObject(obj, keys) ==
  LET present == IF \A i \in 1..Len(keys) : keys[i] \in DOMAIN obj THEN keys
                 ELSE SelectSeq(keys, LAMBDA k : k \in DOMAIN obj)
  IN  [i \in 1..Len(present) |-> <<present[i], obj[present[i]]>>]

\* JSON.stringify of an array of such objects
JSONStringify(arr, keys) ==
  [i \in 1..Len(arr) |-> StringifyObject(arr[i], keys)]

\* JSON.parse of an object's text: a later member overrides an earlier one
ParseObject(members) ==
  [k \in {members[i][1] : i \in 1..Len(members)} |->
     LET last == CHOOSE i \in 1..Len(members) :
                   /\ members[i][1] = k
                   /\ \A j \in (i + 1)..Len(members) : members[j][1] # k
     IN  members[last][2]]

\* JSON.parse of an array's text
JSONParse(text) == [i \in 1..Len(text) |-> ParseObject(text[i])]

\* localStorage.setItem(key, text)
SetItem(store, key, text) ==
  [k \in DOMAIN store \cup {key} |-> IF k = key THEN text ELSE store[k]]

\* `stored ? JSON.parse(stored) : []` on localStorage.getItem(key)
LoadArray(store, key) ==
  IF key \in DOMAIN store THEN JSONParse(store[key]) ELSE <<>>

-----------------------------------------------------------------------------
(* 1. Task management: class TaskManager *)

\* the keys of a task object, in the order addTask creates them
TaskKeys == <<"id", "title", "description", "category", "priority", "dueDate",
              "dueTime", "reminder", "repeat", "completed", "subtasks",
              "createdAt">>

Date1231 == DateStr(2023, 12, 31)
Date0101 == DateStr(2024, 1, 1)

\* what the new-task form hands to addTask
TaskDataInputs ==
  { [title |-> "Buy milk", dueDate |-> <<>>],
    [title |-> "Buy milk", dueDate |-> Date1231, priority |-> ""],
    [title |-> "Buy milk", dueDate |-> Date0101, completed |-> TRUE] }

\* the partial fields updateTask is called with
UpdateInputs ==
  { [dueDate |-> Date0101],
    [completed |-> TRUE],
    [id |-> 0, createdAt |-> ISOString(0)] }

\* the ids the handlers are called with; -1 is the id of no task
IdInputs == (0..MaxClock) \cup {-1}

loadTasks(store) == LoadArray(store, "tasks")

\* saveTasks writing the pending tasks only
saveTasks_Pending(store, ts) ==
  SetItem(store, "tasks",
          JSONStringify(SelectSeq(ts, LAMBDA task : ~task.completed), TaskKeys))

saveTasks(store, ts) == SetItem(store, "tasks", JSONStringify(ts, TaskKeys))

\* the task object addTask builds at clock reading `now`
NewTask(taskData, now) ==
  [id |-> now,
   title |-> taskData.title,
   description |-> StrOr(taskData, "description", ""),
   category |-> StrOr(taskData, "category", ""),
   priority |-> StrOr(taskData, "priority", "medium"),
   dueDate |-> IF "dueDate" \in DOMAIN taskData THEN taskData.dueDate
               ELSE <<>>,    \* `|| ''`: a missing date and '' are falsy
   dueTime |-> StrOr(taskData, "dueTime", ""),
   reminder |-> StrOr(taskData, "reminder", "none"),
   repeat |-> StrOr(taskData, "repeat", "none"),
   completed |-> FALSE,
   subtasks |-> IF "subtasks" \in DOMAIN taskData THEN taskData.subtasks
                ELSE <<>>,   \* `|| []`: every array is truthy
   createdAt |-> ISOString(now)]

\* this.tasks after addTask
TasksAfterAdd(ts, taskData, now) == Append(ts, NewTask(taskData, now))

\* deleteTask removing only the first task with the id
TasksAfterDelete_First(ts, taskId) ==
  LET i == Find({j \in 1..Len(ts) : ts[j].id = taskId})
  IN  IF i = 0 THEN ts
      ELSE [j \in 1..(Len(ts) - 1) |-> IF j < i THEN ts[j] ELSE ts[j + 1]]

\* this.tasks after deleteTask
TasksAfterDelete(ts, taskId) == SelectSeq(ts, LAMBDA task : task.id # taskId)

\* this.tasks.find(t => t.id === taskId), as an index
FindTask(ts, taskId) == Find({i \in 1..Len(ts) : ts[i].id = taskId})

\* this.tasks after updateTask
TasksAfterUpdate(ts, taskId, updates) ==
  LET i == FindTask(ts, taskId)
  IN  IF i # 0 THEN [ts EXCEPT ![i] = ObjectAssign(ts[i], updates)] ELSE ts

\* toggleTask setting the flag instead of flipping it
TasksAfterToggle_Set(ts, taskId) ==
  LET i == FindTask(ts, taskId)
  IN  IF i # 0 THEN [ts EXCEPT ![i].completed = TRUE] ELSE ts

\* this.tasks after toggleTask
TasksAfterToggle(ts, taskId) ==
  LET i == FindTask(ts, taskId)
  IN  IF i # 0 THEN [ts EXCEPT ![i].completed = ~ts[i].completed] ELSE ts

getAllTasks(ts) == ts

getCompletedTasks(ts) == SelectSeq(ts, LAMBDA task : task.completed)

\* getPendingTasks without its test
getPendingTasks_All(ts) == ts

getPendingTasks(ts) == SelectSeq(ts, LAMBDA task : ~task.completed)

getTasksByCategory(ts, category) ==
  SelectSeq(ts, LAMBDA task : task.category = category)

getTasksByPriority(ts, priority) ==
  SelectSeq(ts, LAMBDA task : task.priority = priority)

getTodayTasks(ts, now) == SelectSeq(ts, LAMBDA task : task.dueDate = Today(now))

\* getUpcomingTasks comparing with >= instead of >
getUpcomingTasks_OrEqual(ts, now) ==
  SelectSeq(ts, LAMBDA task : task.dueDate = Today(now)
                           \/ StrGreater(task.dueDate, Today(now)))

getUpcomingTasks(ts, now) ==
  SelectSeq(ts, LAMBDA task : StrGreater(task.dueDate, Today(now)))

getRemainingTasksCount(ts) == Len(getPendingTasks(ts))


-----------------------------------------------------------------------------
(* JavaScript Number arithmetic (IEEE 754 binary64, round to nearest, ties  *)
(* to even) for Math.round((completed / total) * 100).  A positive double   *)
(* is [hi, mid, lo, exp]: its 53-bit significand is                         *)
(* hi * 2^36 + mid * 2^18 + lo with 2^16 <= hi < 2^17 and mid, lo < 2^18,   *)
(* and its value is significand * 2^(exp - 52).  Zero has hi = 0.           *)

Limb == 262144       \* 2^18
HiOne == 65536       \* 2^16: the leading significand bit, in hi

RECURSIVE Pow2(_)
Pow2(k) == IF k = 0 THEN 1 ELSE 2 * Pow2(k - 1)

\* the least e with c * 2^e >= n, for 0 < c <= n
RECURSIVE ShiftCount(_, _)
ShiftCount(c, n) == IF c >= n THEN 0 ELSE 1 + ShiftCount(2 * c, n)

\* x rounded: one more unit in the last place when the dropped part, whose
\* first bit is guard and whose rest is nonzero iff sticky, says so
RoundNearestEven(x, guard, sticky) ==
  IF guard = 1 /\ (sticky \/ (x.lo % 2) = 1)
  THEN LET lo == x.lo + 1
           mid == x.mid + (lo \div Limb)
           hi == x.hi + (mid \div Limb)
       IN  IF hi = 2 * HiOne
           THEN [hi |-> HiOne, mid |-> 0, lo |-> 0, exp |-> x.exp + 1]
           ELSE [hi |-> hi, mid |-> mid % Limb, lo |-> lo % Limb, exp |-> x.exp]
  ELSE x

\* the double c / n, for integers 0 <= c <= n and 0 < n <= 8191 (a remainder times 2^18 stays below 2^31):
\* long division, 1 + 16 + 18 + 18 quotient bits, then the rounding
DoubleDivide(c, n) ==
  IF c = 0 THEN [hi |-> 0, mid |-> 0, lo |-> 0, exp |-> 0]
  ELSE LET e == ShiftCount(c, n)
           r0 == (c * Pow2(e)) - n
           d1 == (r0 * HiOne) \div n
           r1 == (r0 * HiOne) % n
           d2 == (r1 * Limb) \div n
           r2 == (r1 * Limb) % n
           d3 == (r2 * Limb) \div n
           r3 == (r2 * Limb) % n
           guard == IF 2 * r3 >= n THEN 1 ELSE 0
       IN  RoundNearestEven([hi |-> HiOne + d1, mid |-> d2, lo |-> d3,
                             exp |-> 0 - e],
                            guard, (2 * r3) - (guard * n) # 0)

\* the double x * 100: the exact 59- or 60-bit product, cut to 53 bits, rounded
DoubleTimes100(x) ==
  IF x.hi = 0 THEN x
  ELSE LET lo == x.lo * 100
           mid == (x.mid * 100) + (lo \div Limb)
           hi == (x.hi * 100) + (mid \div Limb)
           extra == IF hi >= 128 * HiOne THEN 7 ELSE 6
           cut == Pow2(extra)
           up == Limb \div cut
           dropped == (lo % Limb) % cut
       IN  RoundNearestEven(
             [hi |-> hi \div cut,
              mid |-> ((mid % Limb) \div cut) + ((hi % cut) * up),
              lo |-> ((lo % Limb) \div cut) + (((mid % Limb) % cut) * up),
              exp |-> x.exp + extra],
             dropped \div (cut \div 2),
             (dropped % (cut \div 2)) # 0)

\* Math.round(x) = floor(x + 0.5), for a double 0 <= x < 2^16
MathRound(x) ==
  IF x.hi = 0 \/ x.exp < -1 THEN 0
  ELSE (x.hi \div Pow2(16 - x.exp)) + ((x.hi \div Pow2(15 - x.exp)) % 2)

getCompletionPercentage(ts) ==
  IF Len(ts) = 0 THEN 0
  ELSE MathRound(DoubleTimes100(
         DoubleDivide(Len(getCompletedTasks(ts)), Len(ts))))


-----------------------------------------------------------------------------
(* 4. Notification management: class NotificationManager *)

MaxNotifications == 50

\* what addNotification and show are called with
NotificationInputs == {[message |-> "Task completed!", type |-> "success"]}

RECURSIVE NumberToString(_)
\* String(n) for an integer n >= 0
NumberToString(n) ==
  IF n < 10 THEN <<Digits[n + 1]>>
  ELSE NumberToString(n \div 10) \o <<Digits[(n % 10) + 1]>>

loadNotifications(store) == LoadArray(store, "notifications")

saveNotifications(store, ns) ==
  SetItem(store, "notifications", JSONStringify(ns, <<"id", "message", "type", "timestamp", "read">>))

\* the history entry addNotification builds at clock reading `now`
NewNotification(message, type, now) ==
  [id |-> now, message |-> message, type |-> type,
   timestamp |-> ISOString(now), read |-> FALSE]

\* addNotification without the cap
NotificationsAfterAdd_NoCap(ns, message, type, now) ==
  <<NewNotification(message, type, now)>> \o ns

\* addNotification with push for unshift, keeping the last 50
NotificationsAfterAdd_Push(ns, message, type, now) ==
  LET pushed == Append(ns, NewNotification(message, type, now))
  IN  IF Len(pushed) > 50 THEN SubSeq(pushed, 2, Len(pushed)) ELSE pushed

\* this.notifications after addNotification: unshift, then slice(0, 50)
NotificationsAfterAdd(ns, message, type, now) ==
  LET unshifted == <<NewNotification(message, type, now)>> \o ns
  IN  IF Len(unshifted) > MaxNotifications
      THEN SubSeq(unshifted, 1, MaxNotifications)
      ELSE unshifted

getUnreadCount(ns) == Len(SelectSeq(ns, LAMBDA n : ~n.read))

\* markAsRead flipping the flag instead of setting it
NotificationsAfterMarkAsRead_Toggle(ns, id) ==
  LET i == FindNotification(ns, id)
  IN  IF i # 0 THEN [ns EXCEPT ![i].read = ~ns[i].read] ELSE ns

\* markAsRead taking the entry out of the history
NotificationsAfterMarkAsRead_Remove(ns, id) ==
  LET i == FindNotification(ns, id)
  IN  IF i # 0
      THEN [j \in 1..(Len(ns) - 1) |-> IF j < i THEN ns[j] ELSE ns[j + 1]]
      ELSE ns

\* this.notifications after markAsRead
NotificationsAfterMarkAsRead(ns, id) ==
  LET i == FindNotification(ns, id)
  IN  IF i # 0 THEN [ns EXCEPT ![i].read = TRUE] ELSE ns

\* markAllAsRead flipping each flag instead of setting it
NotificationsAfterMarkAll_Flip(ns) ==
  [i \in 1..Len(ns) |-> [ns[i] EXCEPT !.read = ~ns[i].read]]

\* this.notifications after markAllAsRead
NotificationsAfterMarkAll(ns) == [i \in 1..Len(ns) |-> [ns[i] EXCEPT !.read = TRUE]]

\* the page's badges after NotificationManager.updateNotificationBadge
BadgesAfterUpdate(bs, ns) ==
  LET unreadCount == getUnreadCount(ns)
  IN  [i \in 1..Len(bs) |->
         [textContent |-> NumberToString(unreadCount),
          display |-> IF unreadCount > 0 THEN "flex" ELSE "none"]]

\* the toast element show() appends to document.body, its timer pending
NewToast(message, type) ==
  [className |-> type, textContent |-> message, animation |-> "slideIn"]

-----------------------------------------------------------------------------
(* 2. Settings management: class SettingsManager *)

\* getDefaultSettings without the twoFactor key
getDefaultSettings_NineKeys ==
  [theme |-> "light",
   fontSize |-> "medium",
   pushNotifications |-> TRUE,
   emailReminders |-> FALSE,
   soundEffects |-> TRUE,
   showCompletedTasks |-> TRUE,
   sortBy |-> "dueDate",
   recurringTasks |-> TRUE,
   darkMode |-> FALSE]

getDefaultSettings ==
  [theme |-> "light",
   fontSize |-> "medium",
   pushNotifications |-> TRUE,
   emailReminders |-> FALSE,
   soundEffects |-> TRUE,
   showCompletedTasks |-> TRUE,
   sortBy |-> "dueDate",
   recurringTasks |-> TRUE,
   twoFactor |-> FALSE,
   darkMode |-> FALSE]

\* `stored ? JSON.parse(stored) : this.getDefaultSettings()`
loadSettings(store) ==
  IF "settings" \in DOMAIN store THEN ParseObject(store["settings"])
  ELSE getDefaultSettings

\* the keys are written in the order they were created: the ten of
\* getDefaultSettings, then a key updateSetting added that is not among them
saveSettings(store, st) ==
  SetItem(store, "settings",
          StringifyObject(st, <<"theme", "fontSize", "pushNotifications",
                                "emailReminders", "soundEffects",
                                "showCompletedTasks", "sortBy", "recurringTasks",
                                "twoFactor", "darkMode", "language">>))

\* this.settings after `this.settings[key] = value`
SettingsAfterUpdate(st, key, value) ==
  [k \in DOMAIN st \cup {key} |-> IF k = key THEN value ELSE st[k]]

getSetting(st, key) == st[key]

getAllSettings(st) == st

\* the `sizes` table of applyFontSize
FontSizes == [small |-> "14px", medium |-> "16px", large |-> "18px"]

\* document.documentElement.setAttribute('data-theme', theme)
applyTheme(pg, theme) == [pg EXCEPT !.dataTheme = theme]

\* root.style.fontSize = sizes[size] || '16px'
applyFontSize(pg, size) ==
  [pg EXCEPT !.fontSize = IF size \in DOMAIN FontSizes THEN FontSizes[size]
                          ELSE "16px"]

\* document.body.classList.add / remove ('dark-mode')
applyDarkMode(pg, enabled) == [pg EXCEPT !.darkMode = enabled]

\* applySetting with no case for darkMode
applySetting_NoDarkMode(pg, key, value) ==
  CASE key = "theme" -> applyTheme(pg, value)
    [] key = "fontSize" -> applyFontSize(pg, value)
    [] OTHER -> pg

\* the switch of applySetting
applySetting(pg, key, value) ==
  CASE key = "theme" -> applyTheme(pg, value)
    [] key = "fontSize" -> applyFontSize(pg, value)
    [] key = "darkMode" -> applyDarkMode(pg, value)
    [] OTHER -> pg

\* "Apply saved settings" of the DOMContentLoaded handler, on a fresh document
PageAfterLoad(st) ==
  LET blank == [dataTheme |-> "", fontSize |-> "", darkMode |-> FALSE]
      themed == applyTheme(blank, getSetting(st, "theme"))
      sized == applyFontSize(themed, getSetting(st, "fontSize"))
  IN  IF getSetting(st, "darkMode") THEN applyDarkMode(sized, TRUE) ELSE sized

\* the (key, value) pairs updateSetting is called with
SettingInputs ==
  { <<"theme", "dark">>, <<"theme", "light">>,
    <<"fontSize", "small">>, <<"fontSize", "large">>, <<"fontSize", "huge">>,
    <<"darkMode", TRUE>>, <<"darkMode", FALSE>>,
    <<"pushNotifications", FALSE>>, <<"sortBy", "priority">>,
    <<"language", "en">> }

-----------------------------------------------------------------------------
(* 3. User profile management: class UserManager *)

\* getDefaultUser() at clock reading `now`; the avatar is the character U+1F464
getDefaultUser(now) ==
  [name |-> "Rajesh Ranjan",
   email |-> "rajesh.ranjan@email.com",
   avatar |-> "U+1F464",
   joinDate |-> ISOString(now),
   totalTasks |-> 45,
   completedTasks |-> 32,
   streak |-> 15,
   successRate |-> 92]

\* `stored ? JSON.parse(stored) : this.getDefaultUser()`
loadUser(store, now) ==
  IF "user" \in DOMAIN store THEN ParseObject(store["user"])
  ELSE getDefaultUser(now)

saveUser(store, u) ==
  SetItem(store, "user",
          StringifyObject(u, <<"name", "email", "avatar", "joinDate",
                               "totalTasks", "completedTasks", "streak",
                               "successRate">>))

\* updateStats also recomputing successRate
UserAfterStats_WithRate(u, ts) ==
  [u EXCEPT !.totalTasks = Len(getAllTasks(ts)),
            !.completedTasks = Len(getCompletedTasks(ts)),
            !.successRate = getCompletionPercentage(ts)]

\* this.user after updateStats()
UserAfterStats(u, ts) ==
  [u EXCEPT !.totalTasks = Len(getAllTasks(ts)),
            !.completedTasks = Len(getCompletedTasks(ts))]

-----------------------------------------------------------------------------
(* 5. DOM manipulation helpers *)

Filters == {"all", "today", "upcoming"}

\* a page without the .task_list region, and one whose region is still empty
NoTaskList == [present |-> FALSE, items |-> <<>>, message |-> ""]
EmptyTaskList == [present |-> TRUE, items |-> <<>>, message |-> ""]

\* the dashboard elements, by selector: .remain_tasks h4, .task_progress,
\* .remain_tasks h6 and .circle_score h2
DashboardElements == {"remaining", "progress", "percentage", "score"}

\* the global updateNotificationBadge(): the remaining count into the first
\* .notification_badge of the page
updateNotificationBadge(bs, ts) ==
  LET remainingCount == getRemainingTasksCount(ts)
  IN  IF bs = <<>> THEN bs
      ELSE [bs EXCEPT ![1] =
              [textContent |-> NumberToString(remainingCount),
               display |-> IF remainingCount = 0 THEN "none" ELSE "flex"]]

\* the dashboard elements after updateDashboardStats()
DashboardAfterStats(db, ts) ==
  LET remainingCount == getRemainingTasksCount(ts)
      percentage == getCompletionPercentage(ts)
  IN  [k \in DOMAIN db |->
         CASE k = "remaining" ->
                NumberToString(remainingCount) \o <<" Tasks Remaining">>
           [] k = "progress" -> NumberToString(percentage)
           [] k = "percentage" -> NumberToString(percentage) \o <<"% Completed">>
           [] k = "score" -> NumberToString(percentage) \o <<"%">>]

\* the switch of renderTaskList
FilteredTasks(ts, filter, now) ==
  CASE filter = "today" -> getTodayTasks(ts, now)
    [] filter = "upcoming" -> getUpcomingTasks(ts, now)
    [] OTHER -> getAllTasks(ts)

\* the .task_item element built for a task; its handlers hold the task, and
\* listeners are the change listeners of its checkbox, in registration order
TaskItem(task) ==
  [className |-> "task_item swipeable", checked |-> FALSE, task |-> task,
   listeners |-> <<"renderTaskList">>]

\* the .task_list region after renderTaskList(filter)
TaskListAfterRender(tl, ts, filter, now) ==
  LET shown == getPendingTasks(FilteredTasks(ts, filter, now))
      message == IF filter = "all" THEN "No pending tasks. Great job!"
                 ELSE IF filter = "today" THEN "No tasks for today!"
                 ELSE "No upcoming tasks!"
  IN  IF ~tl.present THEN tl
      ELSE IF Len(shown) = 0
      THEN [present |-> TRUE, items |-> <<>>, message |-> message]
      ELSE [present |-> TRUE,
            items |-> [i \in 1..Len(shown) |-> TaskItem(shown[i])],
            message |-> ""]

(* src/app.js, the earlier variant of the same helpers *)

\* the .task_item element app.js builds for a task
appjs_TaskItem(task) ==
  [className |-> IF task.completed THEN "task_item completed" ELSE "task_item ",
   checked |-> task.completed,
   task |-> task,
   listeners |-> <<"renderTaskList">>]

\* the .task_list region after app.js's renderTaskList(filter)
appjs_TaskListAfterRender(tl, ts, filter, now) ==
  LET shown == FilteredTasks(ts, filter, now)
      message == IF filter = "all"
                 THEN "No tasks yet. Create one to get started!"
                 ELSE IF filter = "today" THEN "No tasks for today!"
                 ELSE "No upcoming tasks!"
  IN  IF ~tl.present THEN tl
      ELSE IF Len(shown) = 0
      THEN [present |-> TRUE, items |-> <<>>, message |-> message]
      ELSE [present |-> TRUE,
            items |-> [i \in 1..Len(shown) |-> appjs_TaskItem(shown[i])],
            message |-> ""]

\* initEventListeners(): one more change listener on every .task-checkbox
\* the document holds when it runs
initEventListeners(tl) ==
  [tl EXCEPT !.items =
     [i \in DOMAIN tl.items |->
        [tl.items[i] EXCEPT !.listeners = Append(@, "initEventListeners")]]]

\* the .task_list region once the DOMContentLoaded handler has run:
\* renderTaskList() if the page has the region, initEventListeners() later
TaskListAfterLoad(present, ts, now) ==
  IF present
  THEN initEventListeners(TaskListAfterRender(EmptyTaskList, ts, "all", now))
  ELSE NoTaskList

\* the dashboard elements once the DOMContentLoaded handler has run:
\* initializeDashboard() if the page has the .task_list region
DashboardAfterLoad(elements, listPresent, ts) ==
  LET blank == [k \in elements |-> <<>>]
  IN  IF listPresent THEN DashboardAfterStats(blank, ts) ELSE blank

\* the badges once the DOMContentLoaded handler has run: its last step is
\* notificationManager.updateNotificationBadge(), which writes every badge
BadgesAfterLoad(count, ns) == BadgesAfterUpdate([i \in 1..count |-> <<>>], ns)

-----------------------------------------------------------------------------
(* The other regions of the page *)

Absent == "absent"

\* a page with none of these regions
NoDocument ==
  [myTasks |-> Absent, completedSection |-> Absent, bottomDiv |-> FALSE,
   completedView |-> Absent, created |-> FALSE,
   completedTasksList |-> NoTaskList, completedTaskList |-> NoTaskList,
   profileInfo |-> FALSE, profileName |-> Absent, profileEmail |-> Absent,
   statCards |-> <<>>]

\* a completed list after rendering: renderCompletedTasks() on
\* .completed_task_list, renderCompletedTasksInView() on .completed_tasks_list
CompletedListAfterRender(list, ts) ==
  LET completedTasks == getCompletedTasks(ts)
  IN  IF ~list.present THEN list
      ELSE IF Len(completedTasks) = 0
      THEN [present |-> TRUE, items |-> <<>>,
            message |-> "No completed tasks yet."]
      ELSE [present |-> TRUE,
            \* the checkbox of a completed task is disabled
            items |-> [i \in 1..Len(completedTasks) |->
                         [className |-> "task_item completed", checked |-> TRUE,
                          task |-> completedTasks[i], listeners |-> <<>>]],
            message |-> ""]

\* the document after renderCompletedTasks()
renderCompletedTasks(d, ts) ==
  [d EXCEPT !.completedTaskList = CompletedListAfterRender(@, ts)]

\* the document after renderCompletedTasksInView()
renderCompletedTasksInView(d, ts) ==
  [d EXCEPT !.completedTasksList = CompletedListAfterRender(@, ts)]

\* the element document.querySelector('.my_tasks') finds: the page's own, or
\* the view showCompletedTasksView created with that class
MyTasksElement(d) ==
  IF d.myTasks # Absent THEN "myTasks"
  ELSE IF d.completedView # Absent /\ d.created THEN "completedView"
  ELSE Absent

SetDisplay(d, element, value) ==
  IF element = Absent \/ d[element] = Absent THEN d
  ELSE [d EXCEPT ![element] = value]

\* showCompletedTasksView(): the document it leaves, and whether it threw;
\* a new view is appended to .bottom_div, dereferenced without a check
showCompletedTasksView(d, ts) ==
  LET hidden == SetDisplay(SetDisplay(d, MyTasksElement(d), "none"),
                           "completedSection", "none")
      appended == [hidden EXCEPT !.completedView = "",
                                 !.created = TRUE,
                                 !.completedTasksList =
                                    IF @.present THEN @ ELSE EmptyTaskList]
  IN  IF hidden.completedView = Absent
      THEN IF hidden.bottomDiv
           THEN [document |-> renderCompletedTasksInView(appended, ts),
                 thrown |-> FALSE]
           ELSE [document |-> hidden, thrown |-> TRUE]
      ELSE [document |->
              renderCompletedTasksInView(
                SetDisplay(hidden, "completedView", "block"), ts),
            thrown |-> FALSE]

\* the document after showHomeView()
showHomeView(d) ==
  SetDisplay(SetDisplay(SetDisplay(d, MyTasksElement(d), "block"),
                        "completedSection", "block"),
             "completedView", "none")

\* a .stat_card element: whether it holds an h4, and the h4's text
StatCard(h4) == [h4 |-> h4, textContent |-> <<>>]

\* updateProfileDisplay(): the document it leaves, and whether it threw; the
\* h4 of each of the first four cards is dereferenced without a check
updateProfileDisplay(d, u, ts) ==
  LET stats == <<NumberToString(Len(getAllTasks(ts))),
                 NumberToString(Len(getCompletedTasks(ts))),
                 NumberToString(u.streak),
                 NumberToString(getCompletionPercentage(ts)) \o <<"%">>>>
      named == [d EXCEPT
                  !.profileName = IF @ = Absent THEN @ ELSE u.name,
                  !.profileEmail = IF @ = Absent THEN @ ELSE u.email]
      cards == d.statCards
      missing == {i \in 1..4 : i <= Len(cards) /\ ~cards[i].h4}
      first == IF missing = {} THEN 5
               ELSE CHOOSE i \in missing : \A j \in missing : i <= j
  IN  IF Len(cards) >= 4
      THEN [document |->
              [named EXCEPT !.statCards =
                 [i \in DOMAIN cards |->
                    IF i < first /\ i <= 4
                    THEN [cards[i] EXCEPT !.textContent = stats[i]]
                    ELSE cards[i]]],
            thrown |-> first <= 4]
      ELSE [document |-> named, thrown |-> FALSE]

\* the document as the page's markup gives it, before any script ran
Markup(d) ==
  LET blank(display) == IF display = Absent THEN Absent ELSE ""
      empty(list) == IF list.present THEN EmptyTaskList ELSE NoTaskList
  IN  [myTasks |-> blank(d.myTasks),
       completedSection |-> blank(d.completedSection),
       bottomDiv |-> d.bottomDiv,
       completedView |-> IF d.created THEN Absent ELSE blank(d.completedView),
       created |-> FALSE,
       completedTasksList |-> IF d.created THEN NoTaskList
                              ELSE empty(d.completedTasksList),
       completedTaskList |-> empty(d.completedTaskList),
       profileInfo |-> d.profileInfo,
       profileName |-> blank(d.profileName),
       profileEmail |-> blank(d.profileEmail),
       statCards |-> [i \in DOMAIN d.statCards |-> StatCard(d.statCards[i].h4)]]

\* the document once the DOMContentLoaded handler has run on the markup of
\* d: updateProfileDisplay() if the page has .profile_info
DocumentAfterLoad(d, u, ts) ==
  IF d.profileInfo THEN updateProfileDisplay(Markup(d), u, ts).document
  ELSE Markup(d)

-----------------------------------------------------------------------------
(* The handlers, as actions *)

Object(v) == [type |-> "object", value |-> v]
Number(v) == [type |-> "number", value |-> v]

EmptyStore == [k \in {} |-> <<>>]

taskVars == <<tasks, adds, deletes>>
notificationVars == <<notifications, badges, toasts>>
settingsVars == <<settings, page>>
viewVars == <<currentFilter, taskList, dashboard, document>>

\* time passes
Tick ==
  /\ clock < MaxClock
  /\ clock' = clock + 1
  /\ UNCHANGED <<taskVars, notificationVars, settingsVars, user, viewVars,
                 localStorage, op, ret, writes>>

addTask(taskData) ==
  /\ tasks' = TasksAfterAdd(tasks, taskData, clock)
  /\ localStorage' = saveTasks(localStorage, tasks')
  /\ ret' = Object(tasks'[Len(tasks')])
  /\ op' = "addTask"
  /\ writes' = {"tasks"}
  /\ adds' = adds + 1
  /\ UNCHANGED <<clock, deletes, notificationVars, settingsVars, user, viewVars>>

deleteTask(taskId) ==
  /\ tasks' = TasksAfterDelete(tasks, taskId)
  /\ localStorage' = saveTasks(localStorage, tasks')
  /\ ret' = Undefined
  /\ op' = "deleteTask"
  /\ writes' = {"tasks"}
  /\ deletes' = IF FindTask(tasks, taskId) # 0 THEN deletes + 1 ELSE deletes
  /\ UNCHANGED <<clock, adds, notificationVars, settingsVars, user, viewVars>>

\* updateTask saving whether or not it found the task
updateTask_AlwaysSaves(taskId, updates) ==
  LET i == FindTask(tasks, taskId)
  IN  /\ tasks' = TasksAfterUpdate(tasks, taskId, updates)
      /\ localStorage' = saveTasks(localStorage, tasks')
      /\ writes' = {"tasks"}
      /\ ret' = IF i # 0 THEN Object(tasks'[i]) ELSE Undefined
      /\ op' = "updateTask"
      /\ UNCHANGED <<clock, adds, deletes, notificationVars, settingsVars, user,
                      viewVars>>

updateTask(taskId, updates) ==
  LET i == FindTask(tasks, taskId)
  IN  /\ tasks' = TasksAfterUpdate(tasks, taskId, updates)
      /\ IF i # 0
         THEN /\ localStorage' = saveTasks(localStorage, tasks')
              /\ writes' = {"tasks"}
              /\ ret' = Object(tasks'[i])
         ELSE /\ UNCHANGED localStorage
              /\ writes' = {}
              /\ ret' = Undefined
      /\ op' = "updateTask"
      /\ UNCHANGED <<clock, adds, deletes, notificationVars, settingsVars, user,
                      viewVars>>

\* toggleTask without its saveTasks call
toggleTask_NoSave(taskId) ==
  LET i == FindTask(tasks, taskId)
  IN  /\ tasks' = TasksAfterToggle(tasks, taskId)
      /\ UNCHANGED localStorage
      /\ writes' = {}
      /\ ret' = IF i # 0 THEN Object(tasks'[i]) ELSE Undefined
      /\ op' = "toggleTask"
      /\ UNCHANGED <<clock, adds, deletes, notificationVars, settingsVars, user,
                      viewVars>>

toggleTask(taskId) ==
  LET i == FindTask(tasks, taskId)
  IN  /\ tasks' = TasksAfterToggle(tasks, taskId)
      /\ IF i # 0
         THEN /\ localStorage' = saveTasks(localStorage, tasks')
              /\ writes' = {"tasks"}
              /\ ret' = Object(tasks'[i])
         ELSE /\ UNCHANGED localStorage
              /\ writes' = {}
              /\ ret' = Undefined
      /\ op' = "toggleTask"
      /\ UNCHANGED <<clock, adds, deletes, notificationVars, settingsVars, user,
                      viewVars>>

\* the query methods of TaskManager, by name; each returns without assigning
\* a field or calling saveTasks
TaskQueries ==
  {"getAllTasks", "getCompletedTasks", "getPendingTasks", "getTasksByCategory",
   "getTasksByPriority", "getTodayTasks", "getUpcomingTasks",
   "getCompletionPercentage", "getRemainingTasksCount"}

TaskQuery(query) ==
  /\ ret' = CASE query = "getAllTasks" -> Object(getAllTasks(tasks))
             [] query = "getCompletedTasks" -> Object(getCompletedTasks(tasks))
             [] query = "getPendingTasks" -> Object(getPendingTasks(tasks))
             [] query = "getTasksByCategory" ->
                  Object(getTasksByCategory(tasks, ""))
             [] query = "getTasksByPriority" ->
                  Object(getTasksByPriority(tasks, "medium"))
             [] query = "getTodayTasks" -> Object(getTodayTasks(tasks, clock))
             [] query = "getUpcomingTasks" ->
                  Object(getUpcomingTasks(tasks, clock))
             [] query = "getCompletionPercentage" ->
                  Number(getCompletionPercentage(tasks))
             [] query = "getRemainingTasksCount" ->
                  Number(getRemainingTasksCount(tasks))
  /\ op' = query
  /\ writes' = {}
  /\ UNCHANGED <<clock, taskVars, notificationVars, settingsVars, user, viewVars,
                 localStorage>>

\* the query getCompletionPercentage()
CompletionPercentage ==
  /\ ret' = Number(getCompletionPercentage(tasks))
  /\ op' = "getCompletionPercentage"
  /\ writes' = {}
  /\ UNCHANGED <<clock, taskVars, notificationVars, settingsVars, user, viewVars,
                 localStorage>>

addNotification(message, type) ==
  /\ notifications' = NotificationsAfterAdd(notifications, message, type, clock)
  /\ localStorage' = saveNotifications(localStorage, notifications')
  /\ badges' = BadgesAfterUpdate(badges, notifications')
  /\ ret' = Undefined
  /\ op' = "addNotification"
  /\ writes' = {"notifications"}
  /\ UNCHANGED <<clock, taskVars, toasts, settingsVars, user, viewVars>>

markAsRead(id) ==
  LET i == FindNotification(notifications, id)
  IN  /\ notifications' = NotificationsAfterMarkAsRead(notifications, id)
      /\ IF i # 0
         THEN /\ localStorage' = saveNotifications(localStorage, notifications')
              /\ badges' = BadgesAfterUpdate(badges, notifications')
              /\ writes' = {"notifications"}
         ELSE /\ UNCHANGED <<localStorage, badges>>
              /\ writes' = {}
      /\ ret' = Undefined
      /\ op' = "markAsRead"
      /\ UNCHANGED <<clock, taskVars, toasts, settingsVars, user, viewVars>>

markAllAsRead ==
  /\ notifications' = NotificationsAfterMarkAll(notifications)
  /\ localStorage' = saveNotifications(localStorage, notifications')
  /\ badges' = BadgesAfterUpdate(badges, notifications')
  /\ ret' = Undefined
  /\ op' = "markAllAsRead"
  /\ writes' = {"notifications"}
  /\ UNCHANGED <<clock, taskVars, toasts, settingsVars, user, viewVars>>

\* show(message, type, duration): the history entry, then the toast element
\* and its timer
show(message, type, duration) ==
  /\ notifications' = NotificationsAfterAdd(notifications, message, type, clock)
  /\ localStorage' = saveNotifications(localStorage, notifications')
  /\ badges' = BadgesAfterUpdate(badges, notifications')
  /\ toasts' = Append(toasts, NewToast(message, type))
  /\ ret' = Object([id |-> clock, message |-> message, type |-> type,
                    duration |-> duration])
  /\ op' = "show"
  /\ writes' = {"notifications"}
  /\ UNCHANGED <<clock, taskVars, settingsVars, user, viewVars>>

\* the timer of toast i fires after its duration: the exit animation starts
ToastTimeout(i) ==
  /\ toasts[i].animation = "slideIn"
  /\ toasts' = [toasts EXCEPT ![i].animation = "slideOut"]
  /\ UNCHANGED <<clock, taskVars, notifications, badges, settingsVars, user,
                 viewVars, localStorage, op, ret, writes>>

\* the removal timer of toast i removing the oldest toast element
ToastRemove_Oldest(i) ==
  /\ toasts[i].animation = "slideOut"
  /\ toasts' = Tail(toasts)
  /\ UNCHANGED <<clock, taskVars, notifications, badges, settingsVars, user,
                 viewVars, localStorage, op, ret, writes>>

\* 300 ms later: element.remove()
ToastRemove(i) ==
  /\ toasts[i].animation = "slideOut"
  /\ toasts' = [j \in 1..(Len(toasts) - 1) |->
                  IF j < i THEN toasts[j] ELSE toasts[j + 1]]
  /\ UNCHANGED <<clock, taskVars, notifications, badges, settingsVars, user,
                 viewVars, localStorage, op, ret, writes>>

updateSetting(key, value) ==
  /\ settings' = SettingsAfterUpdate(settings, key, value)
  /\ localStorage' = saveSettings(localStorage, settings')
  /\ page' = applySetting(page, key, value)
  /\ ret' = Undefined
  /\ op' = "updateSetting"
  /\ writes' = {"settings"}
  /\ UNCHANGED <<clock, taskVars, notificationVars, user, viewVars>>

\* renderTaskList(filter); updateDashboardStats() is its last statement, not
\* reached when the list is empty
renderTaskList(filter) ==
  /\ currentFilter' = filter
  /\ taskList' = TaskListAfterRender(taskList, tasks, filter, clock)
  /\ IF taskList.present /\ taskList'.items # <<>>
     THEN /\ dashboard' = DashboardAfterStats(dashboard, tasks)
          /\ badges' = updateNotificationBadge(badges, tasks)
     ELSE UNCHANGED <<dashboard, badges>>
  /\ ret' = Undefined
  /\ op' = "renderTaskList"
  /\ writes' = {}
  /\ UNCHANGED <<clock, taskVars, notifications, toasts, settingsVars, user,
                 localStorage, document>>

\* renderTaskList(filter) of src/app.js
appjs_renderTaskList(filter) ==
  /\ currentFilter' = filter
  /\ taskList' = appjs_TaskListAfterRender(taskList, tasks, filter, clock)
  /\ IF taskList.present /\ taskList'.items # <<>>
     THEN /\ dashboard' = DashboardAfterStats(dashboard, tasks)
          /\ badges' = updateNotificationBadge(badges, tasks)
     ELSE UNCHANGED <<dashboard, badges>>
  /\ ret' = Undefined
  /\ op' = "renderTaskList"
  /\ writes' = {}
  /\ UNCHANGED <<clock, taskVars, notifications, toasts, settingsVars, user,
                 localStorage, document>>

\* show(message, type, duration) of src/app.js: the toast element and its
\* timer only; this NotificationManager keeps no history
appjs_show(message, type, duration) ==
  /\ toasts' = Append(toasts, NewToast(message, type))
  /\ ret' = Object([id |-> clock, message |-> message, type |-> type,
                    duration |-> duration])
  /\ op' = "show"
  /\ writes' = {}
  /\ UNCHANGED <<clock, taskVars, notifications, badges, settingsVars, user,
                 viewVars, localStorage>>

\* clearAllData removing the tasks record only
clearAllData_TasksOnly(confirmed) ==
  /\ IF confirmed
     THEN /\ localStorage' = [k \in DOMAIN localStorage \ {"tasks"} |->
                                localStorage[k]]
          /\ tasks' = loadTasks(localStorage')
          /\ settings' = loadSettings(localStorage')
          /\ user' = loadUser(localStorage', clock)
          /\ notifications' = loadNotifications(localStorage')
          /\ page' = PageAfterLoad(settings')
          /\ currentFilter' = "all"
          /\ taskList' = TaskListAfterLoad(taskList.present, tasks', clock)
          /\ dashboard' = DashboardAfterLoad(DOMAIN dashboard, taskList.present,
                                             tasks')
          /\ document' = DocumentAfterLoad(document, user', tasks')
          /\ badges' = BadgesAfterLoad(Len(badges), notifications')
          /\ toasts' = <<>>
     ELSE UNCHANGED <<localStorage, tasks, settingsVars, user, notificationVars,
                      viewVars>>
  /\ ret' = Undefined
  /\ op' = "clearAllData"
  /\ writes' = {}
  /\ UNCHANGED <<clock, adds, deletes>>

\* clearAllData(): on confirm, localStorage.clear() and location.reload(), so
\* the script runs again on a fresh document and every store is constructed
\* from the cleared storage
clearAllData(confirmed) ==
  /\ IF confirmed
     THEN /\ localStorage' = EmptyStore
          /\ tasks' = loadTasks(localStorage')
          /\ settings' = loadSettings(localStorage')
          /\ user' = loadUser(localStorage', clock)
          /\ notifications' = loadNotifications(localStorage')
          /\ page' = PageAfterLoad(settings')
          /\ currentFilter' = "all"
          /\ taskList' = TaskListAfterLoad(taskList.present, tasks', clock)
          /\ dashboard' = DashboardAfterLoad(DOMAIN dashboard, taskList.present,
                                             tasks')
          /\ document' = DocumentAfterLoad(document, user', tasks')
          /\ badges' = BadgesAfterLoad(Len(badges), notifications')
          /\ toasts' = <<>>
     ELSE UNCHANGED <<localStorage, tasks, settingsVars, user, notificationVars,
                      viewVars>>
  /\ ret' = Undefined
  /\ op' = "clearAllData"
  /\ writes' = {}
  /\ UNCHANGED <<clock, adds, deletes>>

updateUser(updates) ==
  /\ user' = ObjectAssign(user, updates)
  /\ localStorage' = saveUser(localStorage, user')
  /\ ret' = Undefined
  /\ op' = "updateUser"
  /\ writes' = {"user"}
  /\ UNCHANGED <<clock, taskVars, notificationVars, settingsVars, viewVars>>

updateStats ==
  /\ user' = UserAfterStats(user, tasks)
  /\ localStorage' = saveUser(localStorage, user')
  /\ ret' = Undefined
  /\ op' = "updateStats"
  /\ writes' = {"user"}
  /\ UNCHANGED <<clock, taskVars, notificationVars, settingsVars, viewVars>>

-----------------------------------------------------------------------------
(* The handlers of the page's elements.  A handler runs its calls one after *)
(* another on the stores and the page; each call is a function of the       *)
(* running state w, a record of the variables a handler can write.          *)

Running ==
  [tasks |-> tasks, localStorage |-> localStorage,
   notifications |-> notifications, badges |-> badges, toasts |-> toasts,
   currentFilter |-> currentFilter, taskList |-> taskList,
   dashboard |-> dashboard, document |-> document, writes |-> {},
   deletes |-> deletes]

\* taskManager.toggleTask(taskId)
Call_toggleTask(w, taskId) ==
  IF FindTask(w.tasks, taskId) # 0
  THEN LET toggled == TasksAfterToggle(w.tasks, taskId)
       IN  [w EXCEPT !.tasks = toggled,
                     !.localStorage = saveTasks(@, toggled),
                     !.writes = @ \cup {"tasks"}]
  ELSE w

\* taskManager.deleteTask(taskId)
Call_deleteTask(w, taskId) ==
  LET kept == TasksAfterDelete(w.tasks, taskId)
  IN  [w EXCEPT !.tasks = kept,
                !.localStorage = saveTasks(@, kept),
                !.writes = @ \cup {"tasks"},
                !.deletes = IF FindTask(w.tasks, taskId) # 0 THEN @ + 1 ELSE @]

\* updateDashboardStats()
Call_updateDashboardStats(w) ==
  [w EXCEPT !.dashboard = DashboardAfterStats(@, w.tasks),
            !.badges = updateNotificationBadge(@, w.tasks)]

\* renderTaskList(filter)
Call_renderTaskList(w, filter, now) ==
  LET rendered == TaskListAfterRender(w.taskList, w.tasks, filter, now)
      listed == [w EXCEPT !.currentFilter = filter, !.taskList = rendered]
  IN  IF w.taskList.present /\ rendered.items # <<>>
      THEN Call_updateDashboardStats(listed)
      ELSE listed

\* renderCompletedTasks()
Call_renderCompletedTasks(w) ==
  [w EXCEPT !.document = renderCompletedTasks(@, w.tasks)]

\* notificationManager.success(message): show(message, 'success', 3000)
Call_success(w, message, now) ==
  LET recorded == NotificationsAfterAdd(w.notifications, message, "success", now)
  IN  [w EXCEPT !.notifications = recorded,
                !.localStorage = saveNotifications(@, recorded),
                !.badges = BadgesAfterUpdate(@, recorded),
                !.toasts = Append(@, NewToast(message, "success")),
                !.writes = @ \cup {"notifications"}]

\* the change listeners without their own updateDashboardStats() call
ChangeListener_NoStats(w, listener, item, now) ==
  LET toggled == Call_toggleTask(w, item.task.id)
      rendered == Call_renderTaskList(toggled, toggled.currentFilter, now)
  IN  IF listener = "renderTaskList"
      THEN Call_success(Call_renderCompletedTasks(rendered),
                        "Task completed!", now)
      ELSE Call_success(rendered, "Task updated!", now)

\* one change listener of a main-list checkbox: the one renderTaskList
\* registers with the item, or the one initEventListeners registers
ChangeListener(w, listener, item, now) ==
  LET toggled == Call_toggleTask(w, item.task.id)
      rendered == Call_renderTaskList(toggled, toggled.currentFilter, now)
  IN  IF listener = "renderTaskList"
      THEN Call_success(
             Call_updateDashboardStats(Call_renderCompletedTasks(rendered)),
             "Task completed!", now)
      ELSE Call_success(Call_updateDashboardStats(rendered),
                        "Task updated!", now)

RECURSIVE Dispatch(_, _, _, _)
\* the change event on an item's checkbox: its listeners, in the order they
\* were registered
Dispatch(w, listeners, item, now) ==
  IF listeners = <<>> THEN w
  ELSE Dispatch(ChangeListener(w, Head(listeners), item, now),
                Tail(listeners), item, now)

\* the variables after a handler that left the running state w
Finished(w) ==
  /\ tasks' = w.tasks
  /\ localStorage' = w.localStorage
  /\ notifications' = w.notifications
  /\ badges' = w.badges
  /\ toasts' = w.toasts
  /\ currentFilter' = w.currentFilter
  /\ taskList' = w.taskList
  /\ dashboard' = w.dashboard
  /\ document' = w.document
  /\ writes' = w.writes
  /\ deletes' = w.deletes

\* the user changes the checkbox of item i of the main list
checkboxChange(i) ==
  /\ i \in DOMAIN taskList.items
  /\ Finished(Dispatch(Running, taskList.items[i].listeners,
                       taskList.items[i], clock))
  /\ ret' = Undefined
  /\ op' = "change"
  /\ UNCHANGED <<clock, adds, settingsVars, user>>

\* the delete handler deleting whatever the user answers
deleteClick_NoConfirm(i, confirmed) ==
  /\ i \in DOMAIN taskList.items
  /\ Finished(
       LET deleted == Call_deleteTask(Running, taskList.items[i].task.id)
       IN  Call_success(
             Call_updateDashboardStats(
               Call_renderTaskList(deleted, deleted.currentFilter, clock)),
             "Task deleted!", clock))
  /\ ret' = Undefined
  /\ op' = "deleteClick"
  /\ UNCHANGED <<clock, adds, settingsVars, user>>

\* the user clicks .delete_action of item i of the main list, and answers
\* the confirm dialog
deleteClick(i, confirmed) ==
  /\ i \in DOMAIN taskList.items
  /\ Finished(
       IF confirmed
       THEN LET deleted == Call_deleteTask(Running, taskList.items[i].task.id)
            IN  Call_success(
                  Call_updateDashboardStats(
                    Call_renderTaskList(deleted, deleted.currentFilter, clock)),
                  "Task deleted!", clock)
       ELSE Running)
  /\ ret' = Undefined
  /\ op' = "deleteClick"
  /\ UNCHANGED <<clock, adds, settingsVars, user>>

(* The render operations, each called on its own *)

\* the variables no render operation reaches
storeVars == <<clock, taskVars, notifications, toasts, settingsVars, user,
               localStorage>>

\* updateDashboardStats(), which ends with the global updateNotificationBadge()
updateDashboardStats ==
  /\ dashboard' = DashboardAfterStats(dashboard, tasks)
  /\ badges' = updateNotificationBadge(badges, tasks)
  /\ ret' = Undefined
  /\ op' = "updateDashboardStats"
  /\ writes' = {}
  /\ UNCHANGED <<storeVars, currentFilter, taskList, document>>

\* notificationManager.updateNotificationBadge()
refreshNotificationBadge ==
  /\ badges' = BadgesAfterUpdate(badges, notifications)
  /\ ret' = Undefined
  /\ op' = "updateNotificationBadge"
  /\ writes' = {}
  /\ UNCHANGED <<storeVars, viewVars>>

\* renderCompletedTasks()
renderCompletedSection ==
  /\ document' = renderCompletedTasks(document, tasks)
  /\ ret' = Undefined
  /\ op' = "renderCompletedTasks"
  /\ writes' = {}
  /\ UNCHANGED <<storeVars, badges, currentFilter, taskList, dashboard>>

\* the click on #completedTasksLink: showCompletedTasksView()
completedTasksLinkClick ==
  LET shown == showCompletedTasksView(document, tasks)
  IN  /\ document' = shown.document
      /\ ret' = IF shown.thrown THEN [type |-> "throw", value |-> "TypeError"]
                 ELSE Undefined
      /\ op' = "showCompletedTasksView"
      /\ writes' = {}
      /\ UNCHANGED <<storeVars, badges, currentFilter, taskList, dashboard>>

\* the click on .back_to_home_btn: showHomeView()
backToHomeClick ==
  /\ document' = showHomeView(document)
  /\ ret' = Undefined
  /\ op' = "showHomeView"
  /\ writes' = {}
  /\ UNCHANGED <<storeVars, badges, currentFilter, taskList, dashboard>>

\* updateProfileDisplay()
refreshProfileDisplay ==
  LET shown == updateProfileDisplay(document, user, tasks)
  IN  /\ document' = shown.document
      /\ ret' = IF shown.thrown THEN [type |-> "throw", value |-> "TypeError"]
                 ELSE Undefined
      /\ op' = "updateProfileDisplay"
      /\ writes' = {}
      /\ UNCHANGED <<storeVars, badges, currentFilter, taskList, dashboard>>

-----------------------------------------------------------------------------
(* Spec: the Task Repository, from an empty store *)

Init ==
  /\ clock = 0
  /\ localStorage = EmptyStore
  /\ tasks = loadTasks(localStorage)
  /\ notifications = loadNotifications(localStorage)
  /\ badges = <<>>
  /\ toasts = <<>>
  /\ settings = loadSettings(localStorage)
  /\ user = loadUser(localStorage, clock)
  /\ page = PageAfterLoad(settings)
  /\ currentFilter = "all"
  /\ taskList = NoTaskList
  /\ dashboard = DashboardAfterLoad({}, FALSE, tasks)
  /\ document = NoDocument
  /\ op = "constructor"
  /\ ret = Undefined
  /\ writes = {}
  /\ adds = 0
  /\ deletes = 0

Next ==
  \/ Tick
  \/ \E taskData \in TaskDataInputs : adds < MaxAdds /\ addTask(taskData)
  \/ \E taskId \in IdInputs : deleteTask(taskId)
  \/ \E taskId \in IdInputs, updates \in UpdateInputs : updateTask(taskId, updates)
  \/ \E taskId \in IdInputs : toggleTask(taskId)

Spec == Init /\ [][Next]_vars

-----------------------------------------------------------------------------
(* SpecPercent: getCompletionPercentage on stored collections of every size *)

\* n stored tasks, oldest first, the c oldest completed; task i was created
\* n + 1 - i ms before BaseInstant
StoredTasks(n, c) ==
  [i \in 1..n |->
     [NewTask([title |-> "Buy milk"], 0 - (n + 1 - i)) EXCEPT !.completed = i <= c]]

InitPercent ==
  /\ clock = 0
  /\ \E n \in 0..MaxTotal : \E c \in 0..n :
       localStorage = saveTasks(EmptyStore, StoredTasks(n, c))
  /\ tasks = loadTasks(localStorage)
  /\ notifications = loadNotifications(localStorage)
  /\ badges = <<>>
  /\ toasts = <<>>
  /\ settings = loadSettings(localStorage)
  /\ user = loadUser(localStorage, clock)
  /\ page = PageAfterLoad(settings)
  /\ currentFilter = "all"
  /\ taskList = NoTaskList
  /\ dashboard = DashboardAfterLoad({}, FALSE, tasks)
  /\ document = NoDocument
  /\ op = "constructor"
  /\ ret = Undefined
  /\ writes = {}
  /\ adds = 0
  /\ deletes = 0

NextPercent == CompletionPercentage

SpecPercent == InitPercent /\ [][NextPercent]_vars

-----------------------------------------------------------------------------
(* SpecNotifications: the Notification Center, from an empty, an almost     *)
(* full and a full stored history                                           *)

Durations == {3000}

\* a stored history of n entries, newest first: entry i was recorded i ms
\* before BaseInstant, and every second one has been read
StoredHistory(n) ==
  [i \in 1..n |->
     [NewNotification("Task completed!", "success", 0 - i)
        EXCEPT !.read = (i % 2 = 0)]]

\* entries of the history recorded in this session
RecordedNow(ns) == Len(SelectSeq(ns, LAMBDA n : n.id >= 0))

InitNotifications ==
  /\ clock = 0
  /\ \E n \in {0, MaxNotifications - 1} :
       localStorage = IF n = 0 THEN EmptyStore
                      ELSE saveNotifications(EmptyStore, StoredHistory(n))
  /\ tasks = loadTasks(localStorage)
  /\ notifications = loadNotifications(localStorage)
  \* the .notification_badge elements of the page: none or two
  /\ \E k \in {0, 2} : badges = BadgesAfterLoad(k, notifications)
  /\ toasts = <<>>
  /\ settings = loadSettings(localStorage)
  /\ user = loadUser(localStorage, clock)
  /\ page = PageAfterLoad(settings)
  /\ currentFilter = "all"
  /\ taskList = NoTaskList
  /\ dashboard = DashboardAfterLoad({}, FALSE, tasks)
  /\ document = NoDocument
  /\ op = "constructor"
  /\ ret = Undefined
  /\ writes = {}
  /\ adds = 0
  /\ deletes = 0

NextNotifications ==
  \/ Tick
  \/ \E in \in NotificationInputs :
       RecordedNow(notifications) < MaxNew /\ addNotification(in.message, in.type)
  \/ \E in \in NotificationInputs, duration \in Durations :
       /\ RecordedNow(notifications) < MaxNew
       /\ Len(toasts) < MaxToasts
       /\ show(in.message, in.type, duration)
  \* the ids: this session's, the newest and the oldest of a full stored
  \* history, and -(MaxNotifications + 1), the id of none
  \/ \E id \in (0..MaxClock)
               \cup {-1, 0 - MaxNotifications, 0 - (MaxNotifications + 1)} :
       markAsRead(id)
  \/ markAllAsRead
  \/ \E i \in DOMAIN toasts : ToastTimeout(i)
  \/ \E i \in DOMAIN toasts : ToastRemove(i)
  \/ \E confirmed \in BOOLEAN : clearAllData(confirmed)

SpecNotifications == InitNotifications /\ [][NextNotifications]_vars

-----------------------------------------------------------------------------
(* SpecAddDelete: sequences of addTask and deleteTask calls only *)

NextAddDelete ==
  \/ Tick
  \/ \E taskData \in TaskDataInputs : adds < MaxAdds /\ addTask(taskData)
  \/ \E taskId \in IdInputs : deleteTask(taskId)

SpecAddDelete == Init /\ [][NextAddDelete]_vars

-----------------------------------------------------------------------------
(* The Task Repository's claims *)

\* C1: from an empty collection, after any sequence of addTask and deleteTask
\* calls, all().length is the number of addTask calls minus the number of
\* deleteTask calls that found a task with their id.
C1_LengthIsAddsMinusDeletes == Len(getAllTasks(tasks)) = adds - deletes

\* C2: in every reachable state of the Task Repository no two tasks of the
\* collection have the same id.
C2_IdsUnique ==
  \A i, j \in DOMAIN tasks : i # j => tasks[i].id # tasks[j].id

\* C3: for every task id present in the collection, toggleCompleted(id) twice
\* in a row leaves that task's completed value, and the whole collection,
\* as before the first call.
C3_ToggleTwiceRestores ==
  \A taskId \in IdInputs :
    FindTask(tasks, taskId) # 0 =>
      LET once == TasksAfterToggle(tasks, taskId)
          twice == TasksAfterToggle(once, taskId)
          i == FindTask(tasks, taskId)
      IN  /\ once[i].completed # tasks[i].completed
          /\ twice[i].completed = tasks[i].completed
          /\ twice = tasks

\* a toggle has just returned a task to not completed
C3_Witness ==
  /\ op = "toggleTask"
  /\ ret # Undefined
  /\ ~ret.value.completed

\* the integer nearest to 100 * c / n, halves rounded up
NearestPercent(c, n) == (200 * c + n) \div (2 * n)

\* C4: completionPercentage() is 0 on the empty collection and otherwise the
\* integer nearest to 100 * completed / total, halves rounded up; it is always
\* an integer in 0..100.
C4_NearestIntegerHalfUp ==
  op = "getCompletionPercentage" =>
    /\ ret.value \in 0..100
    /\ ret.value = IF Len(tasks) = 0 THEN 0
                   ELSE NearestPercent(Len(getCompletedTasks(tasks)), Len(tasks))

\* C5: completed() and pending() partition all(): every task is in exactly one
\* of them, according to its completed flag, and remainingCount() is
\* all().length - completed().length.
C5_CompletedPendingPartition ==
  LET done == getCompletedTasks(tasks)
      todo == getPendingTasks(tasks)
      In(t, s) == \E j \in DOMAIN s : s[j] = t
  IN  /\ \A i \in DOMAIN tasks :
           IF tasks[i].completed
           THEN In(tasks[i], done) /\ ~In(tasks[i], todo)
           ELSE In(tasks[i], todo) /\ ~In(tasks[i], done)
      /\ \A j \in DOMAIN done : done[j].completed /\ In(done[j], tasks)
      /\ \A j \in DOMAIN todo : ~todo[j].completed /\ In(todo[j], tasks)
      /\ Len(done) + Len(todo) = Len(getAllTasks(tasks))
      /\ getRemainingTasksCount(tasks) = Len(getAllTasks(tasks)) - Len(done)

\* a collection with a completed and a pending task
C5_Witness ==
  /\ Len(getCompletedTasks(tasks)) >= 1
  /\ Len(getPendingTasks(tasks)) >= 1

\* a is lexically greater than b: at the first position where they differ,
\* b has ended or a's character has the greater code
LexicallyGreater(a, b) ==
  \E k \in 1..Len(a) :
    /\ \A j \in 1..(k - 1) : j <= Len(b) /\ a[j] = b[j]
    /\ k > Len(b) \/ CharCode(a[k]) > CharCode(b[k])

\* C6: dueToday() is exactly the tasks whose dueDate equals today's YYYY-MM-DD
\* string and dueUpcoming() exactly those whose dueDate is lexically greater;
\* the two are disjoint and a task with an empty dueDate is in neither.
C6_TodayAndUpcoming ==
  LET today == IF clock = 0 THEN Date1231 ELSE Date0101
      dueToday == getTodayTasks(tasks, clock)
      dueUpcoming == getUpcomingTasks(tasks, clock)
      In(t, s) == \E j \in DOMAIN s : s[j] = t
      Count(s, dueDate) == Cardinality({j \in DOMAIN s : s[j].dueDate = dueDate})
  IN  /\ \A i \in DOMAIN tasks :
           /\ In(tasks[i], dueToday) <=> tasks[i].dueDate = today
           /\ In(tasks[i], dueUpcoming) <=> LexicallyGreater(tasks[i].dueDate, today)
           /\ ~(In(tasks[i], dueToday) /\ In(tasks[i], dueUpcoming))
           /\ tasks[i].dueDate = <<>> =>
                ~In(tasks[i], dueToday) /\ ~In(tasks[i], dueUpcoming)
           /\ Count(dueToday, tasks[i].dueDate) + Count(dueUpcoming, tasks[i].dueDate)
                <= Count(tasks, tasks[i].dueDate)
      /\ \A j \in DOMAIN dueToday : In(dueToday[j], tasks)
      /\ \A j \in DOMAIN dueUpcoming : In(dueUpcoming[j], tasks)
      /\ Len(dueToday) = Count(tasks, today)

\* on 2024-01-01, a task due 2024-01-01 beside one due before
C6_Witness ==
  /\ clock = 1
  /\ \E i \in DOMAIN tasks : tasks[i].dueDate = Date0101
  /\ \E i \in DOMAIN tasks : tasks[i].dueDate = Date1231
  /\ Len(getTodayTasks(tasks, clock)) = 1
  /\ Len(getUpcomingTasks(tasks, clock)) = 0

\* C10: updateTask and toggleTask with an id no task has return undefined,
\* leave the collection unchanged and write nothing to the persistent store.
C10_AbsentIdIsNoOp ==
  [][\A taskId \in IdInputs :
       /\ FindTask(tasks, taskId) = 0
       /\ toggleTask(taskId) \/ \E updates \in UpdateInputs : updateTask(taskId, updates)
       => /\ ret' = Undefined
          /\ tasks' = tasks
          /\ localStorage' = localStorage
          /\ writes' = {}]_vars

\* updateTask has just returned undefined on a collection that holds tasks
C10_Witness ==
  /\ op = "updateTask"
  /\ ret = Undefined
  /\ writes = {}
  /\ tasks # <<>>

\* C12: delete(id) removes every task whose id equals the argument and no
\* other, keeping the rest in their order; when no task has the id the
\* collection is unchanged and no error is raised; in both cases the collection
\* is written to the persistent store.
C12_DeleteRemovesExactlyMatches ==
  [][\A taskId \in IdInputs :
       deleteTask(taskId)
       => LET keep == {i \in DOMAIN tasks : tasks[i].id # taskId}
              Nth(j) == CHOOSE i \in keep : Cardinality({k \in keep : k <= i}) = j
          IN  /\ Len(tasks') = Cardinality(keep)
              /\ \A j \in DOMAIN tasks' : tasks'[j] = tasks[Nth(j)]
              /\ keep = DOMAIN tasks => tasks' = tasks
              /\ ret' = Undefined
              /\ writes' = {"tasks"}
              /\ "tasks" \in DOMAIN localStorage'
              /\ JSONParse(localStorage'["tasks"]) = tasks']_vars

\* a delete has just removed a task and left another in the collection
C12_Witness ==
  /\ op = "deleteTask"
  /\ deletes >= 1
  /\ Len(tasks) >= 1
  /\ "tasks" \in DOMAIN localStorage

\* C13: after every add, delete, update on an existing id and toggleCompleted
\* on an existing id, the persisted `tasks` record equals the in-memory
\* collection; query operations perform no write.
C13_WriteThrough ==
  /\ (\/ op \in {"addTask", "deleteTask"}
      \/ op \in {"updateTask", "toggleTask"} /\ ret # Undefined)
     => /\ "tasks" \in DOMAIN localStorage
        /\ JSONParse(localStorage["tasks"]) = tasks
        /\ writes = {"tasks"}
  /\ op \in TaskQueries
     => /\ writes = {}
        /\ loadTasks(localStorage) = tasks

\* a query has just returned a completed task: a toggle was written through
\* before it
C13_Witness ==
  /\ op = "getCompletedTasks"
  /\ ret.value # <<>>
  /\ JSONParse(localStorage["tasks"]) = tasks
  /\ writes = {}

\* C14: once a task has been created, no operation of the Task Repository
\* (update with any partial fields, toggleCompleted, add or delete of other
\* tasks) changes its id or createdAt while it stays in the collection.
C14_IdAndCreatedAtImmutable ==
  [][IF Len(tasks') >= Len(tasks)
     THEN \A i \in DOMAIN tasks :
            /\ tasks'[i].id = tasks[i].id
            /\ tasks'[i].createdAt = tasks[i].createdAt
     ELSE \A j \in DOMAIN tasks' : \E i \in DOMAIN tasks :
            /\ tasks'[j].id = tasks[i].id
            /\ tasks'[j].createdAt = tasks[i].createdAt]_vars

\* C15: a task's completed flag is false when the task is created, whatever
\* the data passed to add, and afterwards changes only in a toggleCompleted
\* step on that task's id; no other operation, update included, changes it.
C15_CompletedOnlyByToggle ==
  [][/\ op' = "addTask" /\ Len(tasks') = Len(tasks) + 1
        => tasks'[Len(tasks')].completed = FALSE
     /\ Len(tasks') >= Len(tasks)
        => \A i \in DOMAIN tasks :
             tasks'[i].completed # tasks[i].completed
             => /\ op' = "toggleTask"
                /\ ret' # Undefined
                /\ ret'.value.id = tasks[i].id]_vars

-----------------------------------------------------------------------------
(* The Notification Center's claims *)

\* the persisted `notifications` record, [] when there is none
Persisted == loadNotifications(localStorage)

\* C7: the notification history in memory and the persisted `notifications`
\* record hold at most 50 entries each.
C7_HistoryAtMostFifty ==
  /\ Len(notifications) <= 50
  /\ Len(Persisted) <= 50

\* a full history was recorded into
C7_Witness ==
  /\ op \in {"addNotification", "show"}
  /\ Len(notifications) = 50
  /\ RecordedNow(notifications) = 2

\* C8: record(message, type) yields the new unread entry followed by the
\* previous entries in their order, cut to the first 50: none is dropped from
\* fewer than 50, exactly the last from 50.
C8_RecordPrependsAndCaps ==
  [][\A in \in NotificationInputs :
       addNotification(in.message, in.type)
         \/ (\E duration \in Durations : show(in.message, in.type, duration))
       => /\ notifications'[1].message = in.message
          /\ notifications'[1].type = in.type
          /\ notifications'[1].read = FALSE
          /\ \A i \in 2..Len(notifications') :
               notifications'[i] = notifications[i - 1]
          /\ Len(notifications) < 50 => Len(notifications') = Len(notifications) + 1
          /\ Len(notifications) = 50 => Len(notifications') = 50
          /\ Persisted' = notifications']_vars

\* addNotification has just pushed the oldest entry out of a full history
C8_Witness ==
  /\ op = "addNotification"
  /\ Len(notifications) = 50
  /\ RecordedNow(notifications) = 2
  /\ notifications[50].id = 0 - 48

\* C9: after markAllRead() unreadCount() is 0, and a second markAllRead()
\* leaves the history, in memory and persisted, as the first left it.
C9_MarkAllReadIdempotent ==
  LET once == NotificationsAfterMarkAll(notifications)
      twice == NotificationsAfterMarkAll(once)
      stored == saveNotifications(localStorage, once)
  IN  /\ getUnreadCount(once) = 0
      /\ twice = once
      /\ saveNotifications(stored, twice) = stored
      /\ op = "markAllAsRead" =>
           /\ getUnreadCount(notifications) = 0
           /\ once = notifications
           /\ stored = localStorage

\* markAllAsRead has just run on a history with this session's entries
C9_Witness ==
  /\ op = "markAllAsRead"
  /\ RecordedNow(notifications) >= 1
  /\ Len(notifications) > RecordedNow(notifications)

\* a step that records an entry: addNotification or show
RecordStep ==
  /\ op' \in {"addNotification", "show"}
  /\ \E in \in NotificationInputs :
       \/ addNotification(in.message, in.type)
       \/ \E duration \in Durations : show(in.message, in.type, duration)

\* a markAsRead or markAllAsRead step: the last handler is one of the two and
\* the step is neither the clock's nor a toast timer's
MarkStep ==
  /\ op' \in {"markAsRead", "markAllAsRead"}
  /\ clock' = clock
  /\ toasts' = toasts

\* a clear-all step the user confirmed
ClearStep == op' = "clearAllData" /\ clearAllData(TRUE)

\* C16: every notification is created with read=false, and once an entry's
\* read flag is true it stays true in every later state in which the entry is
\* still in the history: no operation turns a read entry back to unread.
C16_ReadIsTerminal ==
  [][IF RecordStep
     THEN /\ notifications'[1].read = FALSE
          /\ \A i \in DOMAIN notifications :
               (i + 1) \in DOMAIN notifications' /\ notifications[i].read
               => notifications'[i + 1].read
     ELSE \A i \in DOMAIN notifications :
            i \in DOMAIN notifications' /\ notifications[i].read
            => notifications'[i].read]_vars

\* an entry recorded in this session was read and then pushed down by a newer
\* one
C16_Witness ==
  /\ op \in {"addNotification", "show"}
  /\ Len(notifications) >= 2
  /\ notifications[2].id >= 0
  /\ notifications[2].read
  /\ ~notifications[1].read

\* a and b are one entry, but for the read flag
SameButRead(a, b) ==
  /\ a.id = b.id
  /\ a.message = b.message
  /\ a.type = b.type
  /\ a.timestamp = b.timestamp

\* C17: an entry leaves the history only in a record step that exceeds the
\* 50-entry cap or in a clear-all; markRead and markAllRead never remove or
\* reorder entries and change no field other than read.
C17_EntriesLeaveOnlyByCapOrClear ==
  [][/\ MarkStep
        => /\ Len(notifications') = Len(notifications)
           /\ \A i \in DOMAIN notifications :
                SameButRead(notifications'[i], notifications[i])
     /\ RecordStep
        => /\ Len(notifications') = IF Len(notifications) < 50
                                    THEN Len(notifications) + 1 ELSE 50
           /\ \A i \in DOMAIN notifications :
                i < 50 => SameButRead(notifications'[i + 1], notifications[i])
     /\ ~RecordStep /\ ~ClearStep
        => /\ Len(notifications') = Len(notifications)
           /\ \A i \in DOMAIN notifications :
                SameButRead(notifications'[i], notifications[i])]_vars

\* markAsRead has just marked the oldest entry of a full history, which still
\* has its 50 entries
C17_Witness ==
  /\ op = "markAsRead"
  /\ writes = {"notifications"}
  /\ Len(notifications) = 50
  /\ notifications[50].read
  /\ RecordedNow(notifications) >= 1

-----------------------------------------------------------------------------
(* SpecSettings: the Settings Store, from no stored record and from a stored *)
(* one, with clear-all                                                       *)

\* the settings records found in storage at page load
StoredSettings ==
  { [getDefaultSettings EXCEPT !.theme = "dark", !.darkMode = TRUE,
                               !.fontSize = "large"] }

InitSettings ==
  /\ clock = 0
  /\ \/ localStorage = EmptyStore
     \/ \E st \in StoredSettings : localStorage = saveSettings(EmptyStore, st)
  /\ tasks = loadTasks(localStorage)
  /\ notifications = loadNotifications(localStorage)
  /\ badges = BadgesAfterLoad(0, notifications)
  /\ toasts = <<>>
  /\ settings = loadSettings(localStorage)
  /\ user = loadUser(localStorage, clock)
  /\ page = PageAfterLoad(settings)
  /\ currentFilter = "all"
  /\ taskList = NoTaskList
  /\ dashboard = DashboardAfterLoad({}, FALSE, tasks)
  /\ document = NoDocument
  /\ op = "constructor"
  /\ ret = Undefined
  /\ writes = {}
  /\ adds = 0
  /\ deletes = 0

NextSettings ==
  \/ Tick
  \/ \E in \in SettingInputs : updateSetting(in[1], in[2])
  \/ \E confirmed \in BOOLEAN : clearAllData(confirmed)

SpecSettings == InitSettings /\ [][NextSettings]_vars

-----------------------------------------------------------------------------
(* The Settings Store's claims *)

\* C11: when the persistent store holds no `settings` record, a newly
\* constructed Settings Store's getAll() returns exactly ten keys:
\* theme=light, fontSize=medium, pushNotifications=true, emailReminders=false,
\* soundEffects=true, showCompletedTasks=true, sortBy=dueDate,
\* recurringTasks=true, twoFactor=false, darkMode=false.
C11_DefaultsWhenNoRecord ==
  "settings" \notin DOMAIN localStorage =>
    LET all == getAllSettings(loadSettings(localStorage))
    IN  /\ Cardinality(DOMAIN all) = 10
        /\ all.theme = "light"
        /\ all.fontSize = "medium"
        /\ all.pushNotifications = TRUE
        /\ all.emailReminders = FALSE
        /\ all.soundEffects = TRUE
        /\ all.showCompletedTasks = TRUE
        /\ all.sortBy = "dueDate"
        /\ all.recurringTasks = TRUE
        /\ all.twoFactor = FALSE
        /\ all.darkMode = FALSE
        /\ getAllSettings(settings) = all

\* the stores were constructed again after a clear-all removed a dark record
C11_Witness ==
  /\ op = "clearAllData"
  /\ clock = 1
  /\ "settings" \notin DOMAIN localStorage
  /\ ~page.darkMode
  /\ page.dataTheme = "light"

\* C20: set(key, value) stores value under key, writes the whole settings
\* record to the persistent store, changes no other key, and has a
\* presentation side effect exactly when key is theme, fontSize or darkMode;
\* for every other key the presentation state is unchanged.
C20_SetStoresPersistsApplies ==
  [][\A in \in SettingInputs :
       updateSetting(in[1], in[2])
       => /\ DOMAIN settings' = DOMAIN settings \cup {in[1]}
          /\ settings'[in[1]] = in[2]
          /\ \A k \in DOMAIN settings \ {in[1]} : settings'[k] = settings[k]
          /\ "settings" \in DOMAIN localStorage'
          /\ ParseObject(localStorage'["settings"]) = settings'
          /\ \A k \in DOMAIN localStorage \ {"settings"} :
               k \in DOMAIN localStorage' /\ localStorage'[k] = localStorage[k]
          /\ in[1] = "theme" => page' = [page EXCEPT !.dataTheme = in[2]]
          /\ in[1] = "fontSize" =>
               /\ page'.fontSize = (CASE in[2] = "small" -> "14px"
                                      [] in[2] = "medium" -> "16px"
                                      [] in[2] = "large" -> "18px"
                                      [] OTHER -> "16px")
               /\ page'.dataTheme = page.dataTheme
               /\ page'.darkMode = page.darkMode
          /\ in[1] = "darkMode" => page' = [page EXCEPT !.darkMode = in[2]]
          /\ in[1] \notin {"theme", "fontSize", "darkMode"} => page' = page]_vars

\* an inert key was just stored on a page whose dark mode is on
C20_Witness ==
  /\ op = "updateSetting"
  /\ "language" \in DOMAIN settings
  /\ settings.darkMode
  /\ page.darkMode
  /\ "settings" \in DOMAIN localStorage

-----------------------------------------------------------------------------
(* SpecQueries: the Task Repository's mutators and its query methods *)

NextQueries ==
  \/ Tick
  \/ \E taskData \in TaskDataInputs : adds < MaxAdds /\ addTask(taskData)
  \/ \E taskId \in IdInputs : deleteTask(taskId)
  \/ \E taskId \in IdInputs, updates \in UpdateInputs : updateTask(taskId, updates)
  \/ \E taskId \in IdInputs : toggleTask(taskId)
  \/ \E query \in TaskQueries : TaskQuery(query)

SpecQueries == Init /\ [][NextQueries]_vars

-----------------------------------------------------------------------------
(* SpecRender: the main list of the later variant, rendered under each       *)
(* filter from stored collections, across midnight                           *)

\* a stored task created i ms before BaseInstant
RenderTask(i, dueDate, completed) ==
  [NewTask([title |-> "Buy milk", dueDate |-> dueDate], 0 - i)
     EXCEPT !.completed = completed]

\* the stored collections: up to two tasks, oldest first, of every due date
\* (none, 2023-12-31 and 2024-01-01) and either completion state
StoredCollections ==
  LET Kinds == {<<>>, Date1231, Date0101} \X BOOLEAN
  IN  {<<>>}
      \cup {<<RenderTask(1, k[1], k[2])>> : k \in Kinds}
      \cup {<<RenderTask(2, k[1], k[2]), RenderTask(1, l[1], l[2])>> :
              k \in Kinds, l \in Kinds}

InitRender ==
  /\ clock = 0
  /\ \E c \in StoredCollections :
       localStorage = IF c = <<>> THEN EmptyStore ELSE saveTasks(EmptyStore, c)
  /\ tasks = loadTasks(localStorage)
  /\ notifications = loadNotifications(localStorage)
  /\ badges = BadgesAfterLoad(1, notifications)
  /\ toasts = <<>>
  /\ settings = loadSettings(localStorage)
  /\ user = loadUser(localStorage, clock)
  /\ page = PageAfterLoad(settings)
  /\ currentFilter = "all"
  /\ \E present \in BOOLEAN :
       /\ taskList = TaskListAfterLoad(present, tasks, clock)
       /\ dashboard = DashboardAfterLoad(DashboardElements, present, tasks)
       /\ document = NoDocument
  /\ op = "constructor"
  /\ ret = Undefined
  /\ writes = {}
  /\ adds = 0
  /\ deletes = 0

NextRender ==
  \/ Tick
  \/ \E filter \in Filters : renderTaskList(filter)

SpecRender == InitRender /\ [][NextRender]_vars

-----------------------------------------------------------------------------
(* SpecAppJs: src/app.js, the earlier variant: its main list and its toasts  *)

\* the state once app.js's DOMContentLoaded handler has run: the list
\* rendered and given its second listeners, the badge written by
\* updateDashboardStats()
InitAppJs ==
  /\ clock = 0
  /\ \E c \in StoredCollections :
       localStorage = IF c = <<>> THEN EmptyStore ELSE saveTasks(EmptyStore, c)
  /\ tasks = loadTasks(localStorage)
  /\ notifications = <<>>
  /\ badges = updateNotificationBadge(<< <<>> >>, tasks)
  /\ toasts = <<>>
  /\ settings = loadSettings(localStorage)
  /\ user = loadUser(localStorage, clock)
  /\ page = PageAfterLoad(settings)
  /\ currentFilter = "all"
  /\ taskList = initEventListeners(
                  appjs_TaskListAfterRender(EmptyTaskList, tasks, "all", clock))
  /\ dashboard = DashboardAfterLoad(DashboardElements, TRUE, tasks)
  /\ document = NoDocument
  /\ op = "constructor"
  /\ ret = Undefined
  /\ writes = {}
  /\ adds = 0
  /\ deletes = 0

NextAppJs ==
  \/ Tick
  \/ \E filter \in Filters : appjs_renderTaskList(filter)
  \/ \E in \in NotificationInputs, duration \in Durations :
       Len(toasts) < MaxToasts /\ appjs_show(in.message, in.type, duration)
  \/ \E i \in DOMAIN toasts : ToastTimeout(i)
  \/ \E i \in DOMAIN toasts : ToastRemove(i)

SpecAppJs == InitAppJs /\ [][NextAppJs]_vars

-----------------------------------------------------------------------------
(* The claims about toasts and the main list, for both variants *)

\* C18: each call of toast(message, type, duration) adds exactly one unread
\* entry with that message and type at the head of the notification history,
\* persists it, creates exactly one on-screen toast element, and changes no
\* task, settings or user state.
C18_ToastRecordsAndShows ==
  [][\A in \in NotificationInputs, duration \in Durations :
       \/ show(in.message, in.type, duration)
       \/ appjs_show(in.message, in.type, duration)
       => /\ Len(notifications') =
               IF Len(notifications) < 50 THEN Len(notifications) + 1 ELSE 50
          /\ notifications'[1].message = in.message
          /\ notifications'[1].type = in.type
          /\ notifications'[1].read = FALSE
          /\ \A i \in 2..Len(notifications') :
               notifications'[i] = notifications[i - 1]
          /\ loadNotifications(localStorage') = notifications'
          /\ Len(toasts') = Len(toasts) + 1
          /\ toasts'[Len(toasts')].textContent = in.message
          /\ \A i \in DOMAIN toasts : toasts'[i] = toasts[i]
          /\ tasks' = tasks
          /\ settings' = settings
          /\ user' = user
          /\ \A k \in {"tasks", "settings", "user"} :
               /\ k \in DOMAIN localStorage' <=> k \in DOMAIN localStorage
               /\ k \in DOMAIN localStorage => localStorage'[k] = localStorage[k]]_vars

\* the tasks of `ts` a filter selects at clock reading `now`, by index
Selected(ts, filter, now) ==
  LET today == IF now = 0 THEN Date1231 ELSE Date0101
  IN  {i \in DOMAIN ts :
         \/ filter = "all"
         \/ filter = "today" /\ ts[i].dueDate = today
         \/ filter = "upcoming" /\ LexicallyGreater(ts[i].dueDate, today)}

\* C19: for every filter in {all, today, upcoming} and every task collection,
\* the rendered main list holds exactly the tasks the filter selects that are
\* not completed, in collection order; no completed task is ever shown in it.
C19_MainListIsPendingOfFilter ==
  [][\A filter \in Filters :
       /\ taskList.present
       /\ renderTaskList(filter) \/ appjs_renderTaskList(filter)
       => LET keep == {i \in Selected(tasks, filter, clock) : ~tasks[i].completed}
              Nth(j) == CHOOSE i \in keep : Cardinality({k \in keep : k <= i}) = j
          IN  /\ Len(taskList'.items) = Cardinality(keep)
              /\ \A j \in DOMAIN taskList'.items :
                   /\ taskList'.items[j].task = tasks[Nth(j)]
                   /\ ~taskList'.items[j].task.completed]_vars

-----------------------------------------------------------------------------
(* SpecUser: the User Profile Store beside the Task Repository *)

NextUser ==
  \/ Tick
  \/ \E taskData \in TaskDataInputs : adds < MaxAdds /\ addTask(taskData)
  \/ \E taskId \in IdInputs : toggleTask(taskId)
  \/ updateUser([streak |-> 16, successRate |-> 93])
  \/ updateStats

SpecUser == Init /\ [][NextUser]_vars

\* C21: after refreshStats() the user record's totalTasks is all().length and
\* completedTasks is completed().length of the Task Repository at that moment,
\* the record is persisted, and name, email, avatar, joinDate, streak and
\* successRate are unchanged; between refreshes task mutations do not change
\* the user record.
C21_RefreshStats ==
  [][/\ op' = "updateStats" /\ clock' = clock
        => /\ user'.totalTasks = Len(tasks)
           /\ user'.completedTasks =
                Cardinality({i \in DOMAIN tasks : tasks[i].completed})
           /\ \A k \in {"name", "email", "avatar", "joinDate", "streak",
                        "successRate"} : user'[k] = user[k]
           /\ DOMAIN user' = DOMAIN user
           /\ "user" \in DOMAIN localStorage'
           /\ ParseObject(localStorage'["user"]) = user'
           /\ tasks' = tasks
     /\ op' \in {"addTask", "toggleTask"} => user' = user]_vars

\* a refresh has just counted two tasks, one of them completed, and a later
\* toggle left the record as it was
C21_Witness ==
  /\ op = "toggleTask"
  /\ user.totalTasks = 2
  /\ user.completedTasks = 1
  /\ Len(getCompletedTasks(tasks)) = 2
  /\ "user" \in DOMAIN localStorage

-----------------------------------------------------------------------------
(* SpecPage: the home page and the handlers of its elements, over stored    *)
(* collections and histories                                                *)

InitPage ==
  /\ clock = 0
  \* the stored histories: none, or one unread entry
  /\ \E c \in StoredCollections, n \in {0, 1} :
       localStorage =
         LET stored == IF c = <<>> THEN EmptyStore ELSE saveTasks(EmptyStore, c)
         IN  IF n = 0 THEN stored
             ELSE saveNotifications(stored, StoredHistory(n))
  /\ tasks = loadTasks(localStorage)
  /\ notifications = loadNotifications(localStorage)
  /\ badges = BadgesAfterLoad(1, notifications)
  /\ toasts = <<>>
  /\ settings = loadSettings(localStorage)
  /\ user = loadUser(localStorage, clock)
  /\ page = PageAfterLoad(settings)
  /\ currentFilter = "all"
  /\ taskList = TaskListAfterLoad(TRUE, tasks, clock)
  /\ dashboard = DashboardAfterLoad(DashboardElements, TRUE, tasks)
  \* the other regions of the home page, as its markup gives them
  /\ document =
       DocumentAfterLoad(
         [NoDocument EXCEPT !.myTasks = "", !.completedSection = "",
                            !.bottomDiv = TRUE,
                            !.completedTaskList = EmptyTaskList],
         user, tasks)
  /\ op = "constructor"
  /\ ret = Undefined
  /\ writes = {}
  /\ adds = 0
  /\ deletes = 0

NextPage ==
  \/ Tick
  \/ \E filter \in Filters : renderTaskList(filter)
  \/ \E i \in DOMAIN taskList.items :
       /\ RecordedNow(notifications) + Len(taskList.items[i].listeners) <= MaxNew
       /\ checkboxChange(i)
  \/ \E i \in DOMAIN taskList.items, confirmed \in BOOLEAN :
       /\ RecordedNow(notifications) < MaxNew
       /\ deleteClick(i, confirmed)
  \/ \E confirmed \in BOOLEAN : clearAllData(confirmed)

SpecPage == InitPage /\ [][NextPage]_vars

-----------------------------------------------------------------------------
(* The claims about the handlers of the home page *)

\* C22: when the user declines the confirmation of a destructive action
\* (deleting a task from the main list, or clear-all), the task collection,
\* the settings, the user record, the notification history and the persistent
\* store are unchanged, nothing is written, and no notification is recorded
\* or shown.
C22_DeclinedChangesNothing ==
  [][(\/ op' = "deleteClick" /\ \E i \in DOMAIN taskList.items :
                                   deleteClick(i, FALSE)
      \/ op' = "clearAllData" /\ clearAllData(FALSE))
     => /\ tasks' = tasks
        /\ settings' = settings
        /\ user' = user
        /\ notifications' = notifications
        /\ localStorage' = localStorage
        /\ writes' = {}
        /\ toasts' = toasts
        /\ badges' = badges]_vars

\* a declined deletion: the handler ran on a list of two tasks, none was ever
\* deleted, and nothing was recorded in this session
C22_Witness ==
  /\ op = "deleteClick"
  /\ deletes = 0
  /\ Len(tasks) = 2
  /\ Len(taskList.items) = 2
  /\ RecordedNow(notifications) = 0
  /\ toasts = <<>>
  /\ "tasks" \in DOMAIN localStorage

-----------------------------------------------------------------------------
(* SpecStores: the four stores together over one persistent store, from an  *)
(* empty store and from one holding a record of each, with clear-all        *)

InitStores ==
  /\ clock = 0
  \* an empty store, or one holding one task, one settings record, one user
  \* record and a history of one entry
  /\ localStorage \in
       { EmptyStore,
         saveNotifications(
           saveUser(
             saveSettings(saveTasks(EmptyStore, <<RenderTask(1, <<>>, FALSE)>>),
                          CHOOSE st \in StoredSettings : TRUE),
             [getDefaultUser(0 - 1) EXCEPT !.streak = 16]),
           StoredHistory(1)) }
  /\ tasks = loadTasks(localStorage)
  /\ notifications = loadNotifications(localStorage)
  /\ badges = BadgesAfterLoad(1, notifications)
  /\ toasts = <<>>
  /\ settings = loadSettings(localStorage)
  /\ user = loadUser(localStorage, clock)
  /\ page = PageAfterLoad(settings)
  /\ currentFilter = "all"
  /\ taskList = NoTaskList
  /\ dashboard = DashboardAfterLoad({}, FALSE, tasks)
  /\ document = NoDocument
  /\ op = "constructor"
  /\ ret = Undefined
  /\ writes = {}
  /\ adds = 0
  /\ deletes = 0

NextStores ==
  \/ adds < MaxAdds /\ addTask([title |-> "Buy milk", dueDate |-> <<>>])
  \/ \E taskId \in IdInputs : toggleTask(taskId)
  \/ updateSetting("language", "en")
  \/ updateStats
  \/ \E in \in NotificationInputs :
       RecordedNow(notifications) < MaxNew /\ addNotification(in.message, in.type)
  \/ \E confirmed \in BOOLEAN : clearAllData(confirmed)

SpecStores == InitStores /\ [][NextStores]_vars

\* C23: after a confirmed clear-all and the reload that follows it, the
\* persistent store holds no tasks, settings, user or notifications record,
\* and the stores constructed again expose an empty task collection, the
\* default settings and an empty notification history.
C23_ClearAllEmptiesEverything ==
  [][ClearStep
     => /\ DOMAIN localStorage' \cap {"tasks", "settings", "user",
                                      "notifications"} = {}
        /\ getAllTasks(tasks') = <<>>
        /\ getAllSettings(settings') = getDefaultSettings
        /\ notifications' = <<>>
        /\ getUnreadCount(notifications') = 0]_vars

\* a confirmed clear-all: tasks were added in this session, and none is left
\* in memory or in the store
C23_Witness ==
  /\ op = "clearAllData"
  /\ adds > 0
  /\ tasks = <<>>
  /\ notifications = <<>>
  /\ settings = getDefaultSettings
  /\ localStorage = EmptyStore

\* C24: after the handler of a main-list completion toggle or of a confirmed
\* task deletion finishes, the rendered main list holds exactly the pending
\* tasks the current filter selects, in collection order, and the displayed
\* remaining count and completion percentage are those of the repository.
C24_ListAndDashboardAgree ==
  [][(\/ op' = "change" /\ clock' = clock
      \/ op' = "deleteClick" /\ deletes' > deletes)
     => LET keep == {i \in Selected(tasks', currentFilter', clock') :
                       ~tasks'[i].completed}
            Nth(j) == CHOOSE i \in keep : Cardinality({k \in keep : k <= i}) = j
            remaining == Cardinality({i \in DOMAIN tasks' : ~tasks'[i].completed})
            percentage == NumberToString(getCompletionPercentage(tasks'))
        IN  /\ currentFilter' = currentFilter
            /\ Len(taskList'.items) = Cardinality(keep)
            /\ \A j \in DOMAIN taskList'.items :
                 taskList'.items[j].task = tasks'[Nth(j)]
            /\ dashboard'["remaining"] =
                 NumberToString(remaining) \o <<" Tasks Remaining">>
            /\ dashboard'["percentage"] = percentage \o <<"% Completed">>
            /\ dashboard'["progress"] = percentage
            /\ dashboard'["score"] = percentage \o <<"%">>]_vars

\* the only task of the collection was completed through its checkbox: the
\* list is empty and the dashboard shows none remaining, 100% completed
C24_Witness ==
  /\ op = "change"
  /\ Len(tasks) = 1
  /\ tasks[1].completed
  /\ taskList.items = <<>>
  /\ taskList.message = "No pending tasks. Great job!"
  /\ dashboard["remaining"] = NumberToString(0) \o <<" Tasks Remaining">>
  /\ dashboard["percentage"] = NumberToString(100) \o <<"% Completed">>

\* C27: one change event on a main-list checkbox flips the completed flag of
\* that checkbox's task exactly once and leaves every other task as it was,
\* for every checkbox of the main list, those rendered during page
\* initialization included.
C27_ChangeFlipsOnce ==
  [][op' = "change" /\ clock' = clock
     => \E i \in DOMAIN taskList.items : \E k \in DOMAIN tasks :
          /\ tasks[k].id = taskList.items[i].task.id
          /\ tasks' = [tasks EXCEPT ![k].completed = ~tasks[k].completed]]_vars

\* C29: after any handler of the page finishes (page initialization, filter
\* selection, completion toggle, task deletion, markRead, markAllRead, toast),
\* every notification badge shows getUnreadCount() of the Notification Center
\* and is hidden exactly when that count is 0.
C29_BadgeShowsUnreadCount ==
  \A i \in DOMAIN badges :
    /\ badges[i].textContent = NumberToString(getUnreadCount(notifications))
    /\ badges[i].display = "none" <=> getUnreadCount(notifications) = 0

-----------------------------------------------------------------------------
(* SpecRegions: the render operations on pages holding any subset of the    *)
(* main list and the dashboard elements, or any subset of the other regions *)

\* the markup of a page: any subset of the home page's other regions, or any
\* subset of the profile page's, whose .stat_card elements are none, four
\* with their h4, or four of which the third has no h4
PageDocuments ==
  { [NoDocument EXCEPT !.myTasks = IF "my_tasks" \in r THEN "" ELSE Absent,
                       !.completedSection =
                          IF "completed_section" \in r THEN "" ELSE Absent,
                       !.bottomDiv = "bottom_div" \in r,
                       !.completedTaskList =
                          IF "completed_task_list" \in r THEN EmptyTaskList
                          ELSE NoTaskList] :
      r \in SUBSET {"my_tasks", "completed_section", "bottom_div",
                    "completed_task_list"} }
  \cup
  { [NoDocument EXCEPT !.profileName = IF "h2" \in r THEN "" ELSE Absent,
                       !.profileEmail = IF "profile_email" \in r THEN ""
                                        ELSE Absent,
                       !.statCards = cards] :
      r \in SUBSET {"h2", "profile_email"}, cards \in { <<>>,
                  [i \in 1..4 |-> StatCard(TRUE)],
                  [i \in 1..4 |-> StatCard(i # 3)] } }

InitRegions ==
  /\ clock = 0
  \* the stored collection: one completed and one pending task
  /\ localStorage =
       saveTasks(EmptyStore,
                 <<RenderTask(2, <<>>, TRUE), RenderTask(1, <<>>, FALSE)>>)
  /\ tasks = loadTasks(localStorage)
  /\ notifications = loadNotifications(localStorage)
  /\ \E k \in {0, 1} : badges = BadgesAfterLoad(k, notifications)
  /\ toasts = <<>>
  /\ settings = loadSettings(localStorage)
  /\ user = loadUser(localStorage, clock)
  /\ page = PageAfterLoad(settings)
  /\ currentFilter = "all"
  /\ \/ \E present \in BOOLEAN, elements \in SUBSET DashboardElements :
          /\ taskList = TaskListAfterLoad(present, tasks, clock)
          /\ dashboard = DashboardAfterLoad(elements, present, tasks)
          /\ document = DocumentAfterLoad(NoDocument, user, tasks)
     \/ \E d \in PageDocuments :
          /\ taskList = TaskListAfterLoad(FALSE, tasks, clock)
          /\ dashboard = DashboardAfterLoad({}, FALSE, tasks)
          /\ document = DocumentAfterLoad(d, user, tasks)
  /\ op = "constructor"
  /\ ret = Undefined
  /\ writes = {}
  /\ adds = 0
  /\ deletes = 0

NextRegions ==
  \/ \E filter \in Filters : renderTaskList(filter)
  \/ updateDashboardStats
  \/ refreshNotificationBadge
  \/ renderCompletedSection
  \/ completedTasksLinkClick
  \/ backToHomeClick
  \/ refreshProfileDisplay

SpecRegions == InitRegions /\ [][NextRegions]_vars

\* C25: for every render operation (main list, dashboard stats, notification
\* badge, completed section, dedicated completed-tasks view, profile display)
\* and every subset of page regions that exist, the operation ends without
\* raising an error, leaves a region the page lacks absent, and changes no
\* store.
C25_AbsentRegionsSkipped ==
  [][/\ ret'.type # "throw"
     /\ taskList'.present = taskList.present
     /\ DOMAIN dashboard' = DOMAIN dashboard
     /\ Len(badges') = Len(badges)
     /\ document'.completedTaskList.present = document.completedTaskList.present
     /\ document'.profileName = Absent <=> document.profileName = Absent
     /\ document'.profileEmail = Absent <=> document.profileEmail = Absent
     /\ Len(document'.statCards) = Len(document.statCards)
     /\ writes' = {}
     /\ UNCHANGED <<tasks, notifications, settings, user, localStorage>>]_vars

-----------------------------------------------------------------------------
(* SpecToasts: toasts, their timers and later store mutations.  A timer set *)
(* with setTimeout fires while the page stays loaded, so the timer steps    *)
(* are weakly fair.                                                         *)

NextToasts ==
  \/ Tick
  \/ \E in \in NotificationInputs, duration \in Durations :
       RecordedNow(notifications) < MaxNew /\ show(in.message, in.type, duration)
  \/ \E i \in DOMAIN toasts : ToastTimeout(i)
  \/ \E i \in DOMAIN toasts : ToastRemove(i)
  \/ adds < MaxAdds /\ addTask([title |-> "Buy milk", dueDate |-> <<>>])
  \/ markAllAsRead

SpecToasts ==
  /\ Init
  /\ [][NextToasts]_vars
  /\ WF_vars(\E i \in DOMAIN toasts : ToastTimeout(i))
  /\ WF_vars(\E i \in DOMAIN toasts : ToastRemove(i))

\* toasts without its element i
WithoutToast(i) ==
  [j \in 1..(Len(toasts) - 1) |-> IF j < i THEN toasts[j] ELSE toasts[j + 1]]

C28_ReloadRoundTrip ==
  /\ loadTasks(localStorage) = tasks
  /\ loadNotifications(localStorage) = notifications
  /\ loadSettings(localStorage) = settings
  /\ "user" \in DOMAIN localStorage => loadUser(localStorage, clock) = user

\* every store was mutated in this session: a task added and completed, the
\* statistics refreshed after it, a setting added, a notification recorded
C28_Witness ==
  /\ DOMAIN localStorage = {"tasks", "settings", "user", "notifications"}
  /\ adds > 0
  /\ \E i \in DOMAIN tasks : tasks[i].id >= 0 /\ tasks[i].completed
  /\ user.totalTasks = Len(tasks)
  /\ user.completedTasks > 0
  /\ "language" \in DOMAIN settings
  /\ RecordedNow(notifications) > 0

-----------------------------------------------------------------------------
(* The claim about marking one entry of the history read *)

\* C30: for every entry n of the notification history, markAsRead(n.id)
\* leaves n read, changes the read flag of no other entry, and lowers
\* getUnreadCount() by one if n was unread and by zero otherwise; with an id
\* no entry has, the history is unchanged.
C30_MarkReadMarksThatEntry ==
  /\ \A j \in DOMAIN notifications :
       LET after == NotificationsAfterMarkAsRead(notifications,
                                                 notifications[j].id)
       IN  /\ Len(after) = Len(notifications)
           /\ after[j].read
           /\ \A k \in DOMAIN notifications \ {j} :
                after[k].read = notifications[k].read
           /\ getUnreadCount(after) =
                getUnreadCount(notifications)
                  - (IF notifications[j].read THEN 0 ELSE 1)
  /\ NotificationsAfterMarkAsRead(notifications, 0 - (MaxNotifications + 1))
       = notifications

=============================================================================
